---- MODULE Spec2Model ----
(***************************************************************************)
(* Rewind: the analysis pipeline of src/rewind (agents.py, wiki.py,        *)
(* ip_adapter_prompt.py, config.py) and its entry points (main.py,         *)
(* api.py), as a state machine.                                            *)
(*                                                                         *)
(* A Python str is a sequence of one-character strings, so that strip,     *)
(* lower, split, slicing and formatting are computed and not assumed.      *)
(* A model response is a sequence of lexical tokens (braces, brackets,     *)
(* colon, comma, string and number literals, null, true, and words of      *)
(* commentary); json.loads is a parser over that sequence.                 *)
(***************************************************************************)
EXTENDS Integers, Sequences, FiniteSets, TLC

(* ------------------------------------------------------------------ *)
(* Python str                                                           *)
(* ------------------------------------------------------------------ *)

Digit == <<"0","1","2","3","4","5","6","7","8","9">>

RECURSIVE StrOfNat(_)
StrOfNat(n) ==
  IF n < 10 THEN <<Digit[n + 1]>>
  ELSE StrOfNat(n \div 10) \o <<Digit[(n % 10) + 1]>>

\* str(n) / f"{n}" of an int
StrOfInt(n) == IF n < 0 THEN <<"-">> \o StrOfNat(0 - n) ELSE StrOfNat(n)

UpperChars == <<"A","B","C","D","E","F","G","H","I","J","K","L","M",
                "N","O","P","Q","R","S","T","U","V","W","X","Y","Z">>
LowerChars == <<"a","b","c","d","e","f","g","h","i","j","k","l","m",
                "n","o","p","q","r","s","t","u","v","w","x","y","z">>

UpperSet == {UpperChars[i] : i \in 1..26}
AlphaSet == UpperSet \cup {LowerChars[i] : i \in 1..26}
LowerOf == [c \in UpperSet |-> LowerChars[CHOOSE i \in 1..26 : UpperChars[i] = c]]

IsAlphaChar(c) == c \in AlphaSet
LowerChar(c) == IF c \in UpperSet THEN LowerOf[c] ELSE c

\* s.lower()
Lower(s) == [i \in 1..Len(s) |-> LowerChar(s[i])]

\* s.isalpha(): non-empty and every character alphabetic
IsAlpha(s) == Len(s) > 0 /\ \A i \in 1..Len(s) : IsAlphaChar(s[i])

RECURSIVE LStripSet(_, _)
LStripSet(s, cs) ==
  IF s # <<>> /\ Head(s) \in cs THEN LStripSet(Tail(s), cs) ELSE s

RECURSIVE RStripSet(_, _)
RStripSet(s, cs) ==
  IF s # <<>> /\ s[Len(s)] \in cs THEN RStripSet(SubSeq(s, 1, Len(s) - 1), cs) ELSE s

\* s.strip(chars)
StripSet(s, cs) == RStripSet(LStripSet(s, cs), cs)

\* s.strip()
Strip(s) == StripSet(s, {" "})

\* s[:n]
Prefix(s, n) == SubSeq(s, 1, IF Len(s) < n THEN Len(s) ELSE n)

\* s.split(sep) for a one-character separator: every part, empty ones included
\* (one step per part, so that a 400-character summary splits within TLC's stack)
RECURSIVE SplitOn(_, _, _, _)
SplitOn(s, sep, cur, acc) ==
  IF \A i \in 1..Len(s) : s[i] # sep THEN Append(acc, cur \o s)
  ELSE LET i == CHOOSE k \in 1..Len(s) : s[k] = sep /\ \A j \in 1..(k - 1) : s[j] # sep
       IN SplitOn(SubSeq(s, i + 1, Len(s)), sep, <<>>,
                  Append(acc, cur \o SubSeq(s, 1, i - 1)))

Split(s, sep) == SplitOn(s, sep, <<>>, <<>>)

\* s.split(): runs of non-whitespace
SplitWs(s) == SelectSeq(Split(s, " "), LAMBDA p : p # <<>>)

\* [p.strip() for p in val.split(',') if p.strip()]
SplitComma(s) ==
  LET parts == Split(s, ",")
      stripped == [i \in 1..Len(parts) |-> Strip(parts[i])]
  IN SelectSeq(stripped, LAMBDA p : p # <<>>)

\* sep.join(xs)
RECURSIVE Join(_, _)
Join(sep, xs) ==
  IF xs = <<>> THEN <<>>
  ELSE IF Len(xs) = 1 THEN xs[1]
  ELSE xs[1] \o sep \o Join(sep, Tail(xs))

\* sub in s
Contains(s, sub) ==
  \E i \in 1..(Len(s) - Len(sub) + 1) : SubSeq(s, i, i + Len(sub) - 1) = sub

(* ------------------------------------------------------------------ *)
(* JSON values and json.loads                                           *)
(* ------------------------------------------------------------------ *)

\* One shape for every value: t the type, s the text of a string or number,
\* a the items of a list or the values of a dict, k the keys of a dict.
JNull == [t |-> "null", s |-> <<>>, a |-> <<>>, k |-> <<>>]
JTrue == [t |-> "bool", s |-> <<"T","r","u","e">> (* True *), a |-> <<>>, k |-> <<>>]
JStr(s) == [t |-> "str", s |-> s, a |-> <<>>, k |-> <<>>]
JNum(s) == [t |-> "num", s |-> s, a |-> <<>>, k |-> <<>>]
JList(items) == [t |-> "list", s |-> <<>>, a |-> items, k |-> <<>>]
JDict(keys, vals) == [t |-> "dict", s |-> <<>>, a |-> vals, k |-> keys]

\* key in d
HasKey(d, key) == \E i \in 1..Len(d.k) : d.k[i] = key

\* d.get(key): the last binding of a repeated key wins, None when absent
DictGet(d, key) ==
  IF HasKey(d, key)
  THEN d.a[CHOOSE i \in 1..Len(d.k) :
             d.k[i] = key /\ \A j \in (i + 1)..Len(d.k) : d.k[j] # key]
  ELSE JNull

\* Lexical tokens of a response text
Tok(kind, s) == [k |-> kind, s |-> s]
LBrace == Tok("{", <<>>)
RBrace == Tok("}", <<>>)
LBrack == Tok("[", <<>>)
RBrack == Tok("]", <<>>)
Colon == Tok(":", <<>>)
Comma == Tok(",", <<>>)
TNull == Tok("null", <<>>)
TTrue == Tok("true", <<>>)
TStr(s) == Tok("str", s)
TNum(s) == Tok("num", s)
TWord(s) == Tok("word", s)

ParseFail == [ok |-> FALSE, v |-> JNull, n |-> 0]
ParseOk(v, n) == [ok |-> TRUE, v |-> v, n |-> n]

RECURSIVE ParseValue(_, _)
RECURSIVE ParseElems(_, _, _)
RECURSIVE ParseMembers(_, _, _, _)

\* One JSON value starting at token i; n is the index after it.
ParseValue(ts, i) ==
  IF i > Len(ts) THEN ParseFail
  ELSE LET tk == ts[i] IN
    CASE tk.k = "str" -> ParseOk(JStr(tk.s), i + 1)
      [] tk.k = "num" -> ParseOk(JNum(tk.s), i + 1)
      [] tk.k = "null" -> ParseOk(JNull, i + 1)
      [] tk.k = "true" -> ParseOk(JTrue, i + 1)
      [] tk.k = "[" ->
           IF i + 1 <= Len(ts) /\ ts[i + 1].k = "]"
           THEN ParseOk(JList(<<>>), i + 2)
           ELSE ParseElems(ts, i + 1, <<>>)
      [] tk.k = "{" ->
           IF i + 1 <= Len(ts) /\ ts[i + 1].k = "}"
           THEN ParseOk(JDict(<<>>, <<>>), i + 2)
           ELSE ParseMembers(ts, i + 1, <<>>, <<>>)
      [] OTHER -> ParseFail

ParseElems(ts, i, acc) ==
  LET r == ParseValue(ts, i) IN
  IF ~r.ok \/ r.n > Len(ts) THEN ParseFail
  ELSE IF ts[r.n].k = "," THEN ParseElems(ts, r.n + 1, Append(acc, r.v))
  ELSE IF ts[r.n].k = "]" THEN ParseOk(JList(Append(acc, r.v)), r.n + 1)
  ELSE ParseFail

ParseMembers(ts, i, ks, vs) ==
  IF i + 1 > Len(ts) \/ ts[i].k # "str" \/ ts[i + 1].k # ":" THEN ParseFail
  ELSE LET r == ParseValue(ts, i + 2) IN
    IF ~r.ok \/ r.n > Len(ts) THEN ParseFail
    ELSE IF ts[r.n].k = ","
      THEN ParseMembers(ts, r.n + 1, Append(ks, ts[i].s), Append(vs, r.v))
    ELSE IF ts[r.n].k = "}"
      THEN ParseOk(JDict(Append(ks, ts[i].s), Append(vs, r.v)), r.n + 1)
    ELSE ParseFail

\* json.loads(blob): exactly one value and nothing after it, else it raises
JsonLoads(ts) ==
  LET r == ParseValue(ts, 1) IN
  IF r.ok /\ r.n = Len(ts) + 1 THEN [ok |-> TRUE, v |-> r.v]
  ELSE [ok |-> FALSE, v |-> JNull]

\* raw.find('{') and raw.rfind('}'): 0 stands for Python's -1
FindFirst(raw, kind) ==
  IF \E i \in 1..Len(raw) : raw[i].k = kind
  THEN CHOOSE i \in 1..Len(raw) :
         raw[i].k = kind /\ \A j \in 1..(i - 1) : raw[j].k # kind
  ELSE 0

FindLast(raw, kind) ==
  IF \E i \in 1..Len(raw) : raw[i].k = kind
  THEN CHOOSE i \in 1..Len(raw) :
         raw[i].k = kind /\ \A j \in (i + 1)..Len(raw) : raw[j].k # kind
  ELSE 0

\* No extraction: the whole response is handed to json.loads
ExtractNothing(raw) == raw

\* blob = raw[first:last+1] if first != -1 and last != -1 else raw
ExtractBlob(raw) ==
  LET first == FindFirst(raw, "{")
      last == FindLast(raw, "}")
  IN IF first # 0 /\ last # 0 THEN SubSeq(raw, first, last) ELSE raw

(* ------------------------------------------------------------------ *)
(* Data models (pydantic)                                               *)
(* ------------------------------------------------------------------ *)

AnalysisListFields ==
  {"architectural_elements", "clothing_fashion", "vehicles_transportation",
   "technology_visible", "materials_construction",
   "architectural_style_research", "cultural_context_needed",
   "fashion_period_research", "technology_evolution",
   "visual_style_descriptors", "composition_elements", "color_palette_notes",
   "clarification_questions", "research_suggestions"}

AnalysisScalarFields ==
  {"scene_type", "lighting_conditions", "weather_atmosphere", "time_of_day", "season"}

ContextListFields ==
  {"architectural_styles", "common_materials", "typical_clothing",
   "transportation_methods", "technology_level", "cultural_characteristics",
   "notable_events", "social_context"}

PromptListFields ==
  {"historical_style_tags", "architectural_details", "atmospheric_elements",
   "negative_prompts", "style_modifiers", "composition_guidance"}

\* The text of each field name, as it appears as a key of the parsed response
FieldKey ==
  [architectural_elements |-> <<"a","r","c","h","i","t","e","c","t","u","r","a","l","_","e","l","e","m","e","n","t","s">> (* architectural_elements *),
   clothing_fashion |-> <<"c","l","o","t","h","i","n","g","_","f","a","s","h","i","o","n">> (* clothing_fashion *),
   vehicles_transportation |-> <<"v","e","h","i","c","l","e","s","_","t","r","a","n","s","p","o","r","t","a","t","i","o","n">> (* vehicles_transportation *),
   technology_visible |-> <<"t","e","c","h","n","o","l","o","g","y","_","v","i","s","i","b","l","e">> (* technology_visible *),
   materials_construction |-> <<"m","a","t","e","r","i","a","l","s","_","c","o","n","s","t","r","u","c","t","i","o","n">> (* materials_construction *),
   architectural_style_research |-> <<"a","r","c","h","i","t","e","c","t","u","r","a","l","_","s","t","y","l","e","_","r","e","s","e","a","r","c","h">> (* architectural_style_research *),
   cultural_context_needed |-> <<"c","u","l","t","u","r","a","l","_","c","o","n","t","e","x","t","_","n","e","e","d","e","d">> (* cultural_context_needed *),
   fashion_period_research |-> <<"f","a","s","h","i","o","n","_","p","e","r","i","o","d","_","r","e","s","e","a","r","c","h">> (* fashion_period_research *),
   technology_evolution |-> <<"t","e","c","h","n","o","l","o","g","y","_","e","v","o","l","u","t","i","o","n">> (* technology_evolution *),
   visual_style_descriptors |-> <<"v","i","s","u","a","l","_","s","t","y","l","e","_","d","e","s","c","r","i","p","t","o","r","s">> (* visual_style_descriptors *),
   composition_elements |-> <<"c","o","m","p","o","s","i","t","i","o","n","_","e","l","e","m","e","n","t","s">> (* composition_elements *),
   color_palette_notes |-> <<"c","o","l","o","r","_","p","a","l","e","t","t","e","_","n","o","t","e","s">> (* color_palette_notes *),
   clarification_questions |-> <<"c","l","a","r","i","f","i","c","a","t","i","o","n","_","q","u","e","s","t","i","o","n","s">> (* clarification_questions *),
   research_suggestions |-> <<"r","e","s","e","a","r","c","h","_","s","u","g","g","e","s","t","i","o","n","s">> (* research_suggestions *),
   scene_type |-> <<"s","c","e","n","e","_","t","y","p","e">> (* scene_type *),
   lighting_conditions |-> <<"l","i","g","h","t","i","n","g","_","c","o","n","d","i","t","i","o","n","s">> (* lighting_conditions *),
   weather_atmosphere |-> <<"w","e","a","t","h","e","r","_","a","t","m","o","s","p","h","e","r","e">> (* weather_atmosphere *),
   time_of_day |-> <<"t","i","m","e","_","o","f","_","d","a","y">> (* time_of_day *),
   season |-> <<"s","e","a","s","o","n">> (* season *),
   architectural_styles |-> <<"a","r","c","h","i","t","e","c","t","u","r","a","l","_","s","t","y","l","e","s">> (* architectural_styles *),
   common_materials |-> <<"c","o","m","m","o","n","_","m","a","t","e","r","i","a","l","s">> (* common_materials *),
   typical_clothing |-> <<"t","y","p","i","c","a","l","_","c","l","o","t","h","i","n","g">> (* typical_clothing *),
   transportation_methods |-> <<"t","r","a","n","s","p","o","r","t","a","t","i","o","n","_","m","e","t","h","o","d","s">> (* transportation_methods *),
   technology_level |-> <<"t","e","c","h","n","o","l","o","g","y","_","l","e","v","e","l">> (* technology_level *),
   cultural_characteristics |-> <<"c","u","l","t","u","r","a","l","_","c","h","a","r","a","c","t","e","r","i","s","t","i","c","s">> (* cultural_characteristics *),
   notable_events |-> <<"n","o","t","a","b","l","e","_","e","v","e","n","t","s">> (* notable_events *),
   social_context |-> <<"s","o","c","i","a","l","_","c","o","n","t","e","x","t">> (* social_context *),
   core_description |-> <<"c","o","r","e","_","d","e","s","c","r","i","p","t","i","o","n">> (* core_description *),
   historical_style_tags |-> <<"h","i","s","t","o","r","i","c","a","l","_","s","t","y","l","e","_","t","a","g","s">> (* historical_style_tags *),
   architectural_details |-> <<"a","r","c","h","i","t","e","c","t","u","r","a","l","_","d","e","t","a","i","l","s">> (* architectural_details *),
   atmospheric_elements |-> <<"a","t","m","o","s","p","h","e","r","i","c","_","e","l","e","m","e","n","t","s">> (* atmospheric_elements *),
   negative_prompts |-> <<"n","e","g","a","t","i","v","e","_","p","r","o","m","p","t","s">> (* negative_prompts *),
   style_modifiers |-> <<"s","t","y","l","e","_","m","o","d","i","f","i","e","r","s">> (* style_modifiers *),
   composition_guidance |-> <<"c","o","m","p","o","s","i","t","i","o","n","_","g","u","i","d","a","n","c","e">> (* composition_guidance *)]

Unknown == <<"u","n","k","n","o","w","n">> (* unknown *)

\* AnalysisResult(): every list empty, every scalar "unknown"
AnalysisResult ==
  [f \in AnalysisListFields \cup AnalysisScalarFields |->
     IF f \in AnalysisListFields THEN <<>> ELSE Unknown]

\* HistoricalContext(): every list empty
HistoricalContext == [f \in ContextListFields |-> <<>>]

\* PromptComponents(): core_description "" and every list empty
PromptComponents == [f \in PromptListFields \cup {"core_description"} |-> <<>>]

\* pydantic's validation of one str value. The repository pins no pydantic
\* version: version 1 (lax) turns a number or a boolean into its text,
\* version 2 rejects everything but a str.
StrOk(v, lax) == v.t = "str" \/ (lax /\ v.t \in {"num", "bool"})

\* Variant: the elements of the list are not validated
ListStrOkShallow(v, lax) == v.t = "list"

\* pydantic's validation of a List[str] value
ListStrOk(v, lax) == v.t = "list" /\ \A i \in 1..Len(v.a) : StrOk(v.a[i], lax)

\* What a field holds where a value that is not a str was stored as it is:
\* no Python str, since its one element is not a character
NonStr == <<"<not a str>">>

\* The str a value is stored as
StrVal(v, lax) == IF StrOk(v, lax) THEN v.s ELSE NonStr

ListStrVal(v, lax) ==
  IF v.t = "list" THEN [i \in 1..Len(v.a) |-> StrVal(v.a[i], lax)] ELSE <<NonStr>>

\* Variant: the record is built without validation
ConstructUnchecked(data, listFields, lax) ==
  [ok |-> TRUE,
   rec |-> [f \in DOMAIN data |->
              IF f \in listFields THEN ListStrVal(data[f], lax) ELSE StrVal(data[f], lax)]]

\* Model(**data) for the declared fields of data (other keys are ignored):
\* ok is FALSE where pydantic raises ValidationError
Construct(data, listFields, lax) ==
  [ok |-> \A f \in DOMAIN data :
            IF f \in listFields THEN ListStrOk(data[f], lax) ELSE StrOk(data[f], lax),
   rec |-> [f \in DOMAIN data |->
              IF f \in listFields THEN ListStrVal(data[f], lax) ELSE StrVal(data[f], lax)]]

\* What a call returns (raised FALSE) or the exception it raises (raised TRUE,
\* err its text); called tells whether self.client.chat.completions.create ran
Return(v) == [raised |-> FALSE, err |-> <<>>, val |-> v, called |-> FALSE]
Raise(e, v) == [raised |-> TRUE, err |-> e, val |-> v, called |-> FALSE]

\* The same outcome, reached after the model was called
Called(out) == [out EXCEPT !.called = TRUE]

\* Variant: the guard forgets the missing client
DisabledPromptOnly(agent) == agent.prompt_only

\* if self.config.prompt_only or not self.client: the guard of every stage
Disabled(agent) == agent.prompt_only \/ ~agent.client

(* ------------------------------------------------------------------ *)
(* Fallback and error records                                           *)
(* ------------------------------------------------------------------ *)

_fallback_analysis(location, target_year) ==
  [AnalysisResult EXCEPT
     !.architectural_elements = <<<<"b","u","i","l","d","i","n","g","s">> (* buildings *), <<"s","t","r","u","c","t","u","r","e","s">> (* structures *)>>,
     !.vehicles_transportation = <<<<"c","a","r","s">> (* cars *)>>,
     !.technology_visible = <<<<"m","o","d","e","r","n"," ","t","e","c","h">> (* modern tech *)>>,
     !.scene_type = <<"u","r","b","a","n"," ","s","c","e","n","e">> (* urban scene *),
     !.lighting_conditions = <<"d","a","y","l","i","g","h","t">> (* daylight *),
     !.weather_atmosphere = <<"c","l","e","a","r">> (* clear *),
     !.time_of_day = <<"d","a","y","t","i","m","e">> (* daytime *),
     !.season = <<"u","n","k","n","o","w","n">> (* unknown *),
     !.composition_elements = <<<<"m","a","i","n","t","a","i","n"," ","o","r","i","g","i","n","a","l"," ","c","o","m","p","o","s","i","t","i","o","n">> (* maintain original composition *)>>,
     !.clarification_questions = <<<<"K","e","y"," ","a","r","c","h","i","t","e","c","t","u","r","a","l"," ","s","t","y","l","e"," ","d","e","t","a","i","l","s","?">> (* Key architectural style details? *)>>,
     !.research_suggestions = <<<<"R","e","s","e","a","r","c","h"," ","l","o","c","a","l"," ","p","e","r","i","o","d"," ","a","r","c","h","i","t","e","c","t","u","r","e">> (* Research local period architecture *)>>]

\* Variant: technology_level is a fixed text, like common_materials
_fallback_context_untimed(location, target_year) ==
  [HistoricalContext EXCEPT
     !.architectural_styles = <<StrOfInt(target_year) \o <<" ","p","e","r","i","o","d"," ","a","r","c","h","i","t","e","c","t","u","r","e">> (*  period architecture *)>>,
     !.common_materials = <<<<"s","t","o","n","e">> (* stone *), <<"w","o","o","d">> (* wood *), <<"b","r","i","c","k">> (* brick *)>>,
     !.transportation_methods = <<<<"w","a","l","k","i","n","g">> (* walking *), <<"h","o","r","s","e","-","d","r","a","w","n">> (* horse-drawn *)>>,
     !.technology_level = <<<<"p","e","r","i","o","d"," ","t","e","c","h","n","o","l","o","g","y">> (* period technology *)>>,
     !.cultural_characteristics = <<StrOfInt(target_year) \o <<" ","c","u","l","t","u","r","e">> (*  culture *)>>,
     !.notable_events = <<<<"E","v","e","n","t","s"," ","a","r","o","u","n","d"," ">> (* Events around  *) \o StrOfInt(target_year)>>,
     !.social_context = <<StrOfInt(target_year) \o <<" ","s","o","c","i","a","l"," ","c","o","n","t","e","x","t">> (*  social context *)>>]

_fallback_context(location, target_year) ==
  [HistoricalContext EXCEPT
     !.architectural_styles = <<StrOfInt(target_year) \o <<" ","p","e","r","i","o","d"," ","a","r","c","h","i","t","e","c","t","u","r","e">> (*  period architecture *)>>,
     !.common_materials = <<<<"s","t","o","n","e">> (* stone *), <<"w","o","o","d">> (* wood *), <<"b","r","i","c","k">> (* brick *)>>,
     !.transportation_methods = <<<<"w","a","l","k","i","n","g">> (* walking *), <<"h","o","r","s","e","-","d","r","a","w","n">> (* horse-drawn *)>>,
     !.technology_level = <<StrOfInt(target_year) \o <<" ","t","e","c","h","n","o","l","o","g","y">> (*  technology *)>>,
     !.cultural_characteristics = <<StrOfInt(target_year) \o <<" ","c","u","l","t","u","r","e">> (*  culture *)>>,
     !.notable_events = <<<<"E","v","e","n","t","s"," ","a","r","o","u","n","d"," ">> (* Events around  *) \o StrOfInt(target_year)>>,
     !.social_context = <<StrOfInt(target_year) \o <<" ","s","o","c","i","a","l"," ","c","o","n","t","e","x","t">> (*  social context *)>>]

\* Variant: the error text is filed under research_suggestions
_error_analysis_as_research(error) ==
  [AnalysisResult EXCEPT !.research_suggestions = <<<<"E","r","r","o","r",":"," ">> (* Error:  *) \o error>>]

_error_analysis(error) ==
  [AnalysisResult EXCEPT !.clarification_questions = <<<<"E","r","r","o","r",":"," ">> (* Error:  *) \o error>>]

\* Variant: the error text is filed under notable_events
_error_context_as_event(error) ==
  [HistoricalContext EXCEPT !.notable_events = <<<<"E","r","r","o","r",":"," ">> (* Error:  *) \o error>>]

_error_context(error) ==
  [HistoricalContext EXCEPT !.social_context = <<<<"E","r","r","o","r",":"," ">> (* Error:  *) \o error>>]

_error_prompts(error) ==
  [PromptComponents EXCEPT !.core_description = <<"E","r","r","o","r"," ","g","e","n","e","r","a","t","i","n","g"," ","p","r","o","m","p","t","s",":"," ">> (* Error generating prompts:  *) \o error]

(* ------------------------------------------------------------------ *)
(* Stage 1: RewindAnalysisAgent.analyze_image                           *)
(* ------------------------------------------------------------------ *)

\* One list field of the parsed response, as the loop over list_fields leaves it
CoerceListAnalysis(val) ==
  IF val.t = "null" THEN JList(<<>>)
  ELSE IF val.t = "str" THEN JList([i \in 1..Len(SplitComma(val.s)) |-> JStr(SplitComma(val.s)[i])])
  ELSE IF val.t # "list" THEN JList(<<>>)
  ELSE val

\* One scalar field: anything but a str becomes 'unknown'
CoerceScalarAnalysis(val) == IF val.t # "str" THEN JStr(Unknown) ELSE val

\* data['AnalysisResult'] replaces data when it is a dict
UnwrapAnalysis(data) ==
  IF data.t = "dict" /\ HasKey(data, <<"A","n","a","l","y","s","i","s","R","e","s","u","l","t">> (* AnalysisResult *))
     /\ DictGet(data, <<"A","n","a","l","y","s","i","s","R","e","s","u","l","t">> (* AnalysisResult *)).t = "dict"
  THEN DictGet(data, <<"A","n","a","l","y","s","i","s","R","e","s","u","l","t">> (* AnalysisResult *))
  ELSE data

\* str(e) of the exception image.save raises when no image was given
NoImageError == <<"'","N","o","n","e","T","y","p","e","'"," ","o","b","j","e","c","t"," ","h","a","s"," ","n","o"," ","a","t","t","r","i","b","u","t","e"," ","'","s","a","v","e","'">> (* 'NoneType' object has no attribute 'save' *)

\* Variant: the handler lets the exception through
ExceptAnalysisReraise(e) == Raise(e, AnalysisResult)

\* except Exception as e: return self._error_analysis(str(e))
ExceptAnalysis(e) == Return(_error_analysis(e))

\* agent: [prompt_only, enable_wiki, client]; image: "ok" or "none";
\* resp: the vision model's behaviour, [raises, err, text]
analyze_image(agent, lax, image, location, target_year, resp) ==
  IF Disabled(agent)
  THEN Return(_fallback_analysis(location, target_year))
  ELSE IF image = "none" THEN ExceptAnalysis(NoImageError)
  ELSE Called(
    IF resp.raises THEN ExceptAnalysis(resp.err)
    ELSE LET loaded == JsonLoads(ExtractBlob(resp.text)) IN
    IF ~loaded.ok THEN Return(_fallback_analysis(location, target_year))
    ELSE LET data == UnwrapAnalysis(loaded.v) IN
      IF data.t # "dict" THEN Return(_fallback_analysis(location, target_year))
      ELSE LET coerced ==
                 [f \in AnalysisListFields \cup AnalysisScalarFields |->
                    IF f \in AnalysisListFields
                    THEN CoerceListAnalysis(DictGet(data, FieldKey[f]))
                    ELSE CoerceScalarAnalysis(DictGet(data, FieldKey[f]))]
               built == Construct(coerced, AnalysisListFields, lax)
           IN IF built.ok THEN Return(built.rec)
              ELSE Return(_fallback_analysis(location, target_year)))

(* ------------------------------------------------------------------ *)
(* Stage 2: RewindAnalysisAgent.get_historical_context                  *)
(* ------------------------------------------------------------------ *)

CoerceListContext(val) ==
  IF val.t = "null" THEN JList(<<>>)
  ELSE IF val.t = "str" THEN JList([i \in 1..Len(SplitComma(val.s)) |-> JStr(SplitComma(val.s)[i])])
  ELSE IF val.t # "list" THEN JList(<<>>)
  ELSE val

\* Variant: the unwrap of analyze_image, which keeps data unless the value is a dict
UnwrapContextIfDict(data) ==
  IF data.t = "dict" /\ HasKey(data, <<"H","i","s","t","o","r","i","c","a","l","C","o","n","t","e","x","t">> (* HistoricalContext *))
     /\ DictGet(data, <<"H","i","s","t","o","r","i","c","a","l","C","o","n","t","e","x","t">> (* HistoricalContext *)).t = "dict"
  THEN DictGet(data, <<"H","i","s","t","o","r","i","c","a","l","C","o","n","t","e","x","t">> (* HistoricalContext *))
  ELSE data

\* data['HistoricalContext'] replaces data whenever the key is present
UnwrapContext(data) ==
  IF data.t = "dict" /\ HasKey(data, <<"H","i","s","t","o","r","i","c","a","l","C","o","n","t","e","x","t">> (* HistoricalContext *))
  THEN DictGet(data, <<"H","i","s","t","o","r","i","c","a","l","C","o","n","t","e","x","t">> (* HistoricalContext *))
  ELSE data

\* The prompt sent to the text model
ContextPrompt(location, target_year, analysis) ==
  <<"P","r","o","v","i","d","e"," ","O","N","L","Y"," ","J","S","O","N"," ","f","o","r"," ","H","i","s","t","o","r","i","c","a","l","C","o","n","t","e","x","t"," ","a","b","o","u","t"," ">> (* Provide ONLY JSON for HistoricalContext about  *) \o location \o <<" ","i","n"," ">> (*  in  *)
    \o StrOfInt(target_year) \o <<"."," ","I","m","a","g","e"," ","c","u","e","s",":"," ">> (* . Image cues:  *)
    \o Join(<<","," ">>, SubSeq(analysis.architectural_elements, 1,
                          IF Len(analysis.architectural_elements) < 8
                          THEN Len(analysis.architectural_elements) ELSE 8))
    \o <<";"," ","S","c","e","n","e",":"," ">> (* ; Scene:  *) \o analysis.scene_type \o <<"."," ","A","r","r","a","y","s"," ","o","n","l","y",","," ","[","]"," ","i","f"," ","u","n","k","n","o","w","n",".">> (* . Arrays only, [] if unknown. *)

\* Variant: the exception of the context call leaves the stage
ExceptContextReraise(e) == Raise(e, HistoricalContext)

\* except Exception as e: return self._error_context(str(e))
ExceptContext(e) == Return(_error_context(e))

get_historical_context(agent, lax, location, target_year, analysis, resp) ==
  IF Disabled(agent)
  THEN Return(_fallback_context(location, target_year))
  ELSE Called(
    IF resp.raises THEN ExceptContext(resp.err)
    ELSE LET loaded == JsonLoads(ExtractBlob(resp.text)) IN
    IF ~loaded.ok THEN Return(_fallback_context(location, target_year))
    ELSE LET data == UnwrapContext(loaded.v) IN
      IF data.t # "dict" THEN Return(_fallback_context(location, target_year))
      ELSE LET coerced ==
                 [f \in ContextListFields |-> CoerceListContext(DictGet(data, FieldKey[f]))]
               built == Construct(coerced, ContextListFields, lax)
           IN IF built.ok THEN Return(built.rec)
              ELSE Return(_fallback_context(location, target_year)))

(* ------------------------------------------------------------------ *)
(* Wikipedia enrichment: wiki.py                                        *)
(* ------------------------------------------------------------------ *)

\* Variant: the slice keeps the whole list
TakeAll(xs, n) == xs

\* s[:n] of a list
Take(xs, n) == SubSeq(xs, 1, IF Len(xs) < n THEN Len(xs) ELSE n)

\* queries = [f"{location} {target_year}", f"History of {location}"] and one
\* f"{location} {t}" for each of extra_terms[:3]
WikiQueries(location, target_year, extra_terms) ==
  <<location \o <<" ">> \o StrOfInt(target_year), <<"H","i","s","t","o","r","y"," ","o","f"," ">> (* History of  *) \o location>>
    \o [i \in 1..Len(Take(extra_terms, 3)) |-> location \o <<" ">> \o extra_terms[i]]

\* The hits of one query: world.summary[title] is what wiki_summary(title) does
\* ("raise": the request raises; "status": a status other than 200, so None;
\* "noextract": a page without extract; "ok": text is the extract).
\* st: [raised, seen, collected]
RECURSIVE WikiHits(_, _, _, _)
WikiHits(world, q, hits, st) ==
  IF hits = <<>> \/ st.raised THEN st
  ELSE LET hit == Head(hits) IN
    IF hit.title \in st.seen THEN WikiHits(world, q, Tail(hits), st)
    ELSE LET sm == world.summary[hit.title] IN
      IF sm.kind = "raise"
      THEN [st EXCEPT !.raised = TRUE, !.seen = @ \cup {hit.title}]
      ELSE WikiHits(world, q, Tail(hits),
             [st EXCEPT !.seen = @ \cup {hit.title},
                        !.collected = Append(@,
                          [query |-> q, title |-> hit.title,
                           none |-> sm.kind # "ok",
                           summary |-> IF sm.kind = "ok" THEN sm.text ELSE <<>>])])

\* The loop over the queries: world.search[i] is what wiki_search does for the
\* i-th query ([raises, hits]); a search that raises is skipped
RECURSIVE WikiLoop(_, _, _, _)
WikiLoop(world, queries, i, st) ==
  IF i > Len(queries) \/ st.raised THEN st
  ELSE IF world.search[i].raises THEN WikiLoop(world, queries, i + 1, st)
  ELSE WikiLoop(world, queries, i + 1,
                WikiHits(world, queries[i], world.search[i].hits, st))

\* {"results": collected[:5]}, or the exception of a summary fetch
contextual_wiki_lookup(location, target_year, extra_terms, world) ==
  LET st == WikiLoop(world, WikiQueries(location, target_year, extra_terms), 1,
                     [raised |-> FALSE, seen |-> {}, collected |-> <<>>])
  IN IF st.raised THEN Raise(<<"s","u","m","m","a","r","y"," ","r","e","q","u","e","s","t"," ","f","a","i","l","e","d">> (* summary request failed *), <<>>)
     ELSE Return(Take(st.collected, 5))

(* ------------------------------------------------------------------ *)
(* Stage 3: RewindAnalysisAgent.generate_prompt_components              *)
(* ------------------------------------------------------------------ *)

RECURSIVE DedupeFrom(_, _, _)
DedupeFrom(seq, seen, out) ==
  IF seq = <<>> THEN out
  ELSE LET k == Strip(Lower(Head(seq))) IN
    IF k # <<>> /\ k \notin seen
    THEN DedupeFrom(Tail(seq), seen \cup {k}, Append(out, Head(seq)))
    ELSE DedupeFrom(Tail(seq), seen, out)

\* A _dedupe that drops the blank entries and keeps every other one
_dedupe_blank_only(seq) == SelectSeq(seq, LAMBDA s : Strip(s) # <<>>)

_dedupe(seq) == DedupeFrom(seq, {}, <<>>)

\* (s or '').strip().lower()[:60]
_short(s) == Prefix(Lower(Strip(s)), 60)

\* The tokens of one summary: the inner loop, with its break at 15 terms
RECURSIVE WikiTokens(_, _)
WikiTokens(toks, terms) ==
  IF toks = <<>> THEN terms
  ELSE LET t == Lower(StripSet(Head(toks), {".", ",", ";", ":", "\"", "(", ")"}))
           added == IF 3 <= Len(t) /\ Len(t) <= 15 /\ IsAlpha(t)
                       /\ ~(\E i \in 1..Len(terms) : terms[i] = t)
                    THEN Append(terms, t) ELSE terms
       IN IF Len(added) >= 15 THEN added ELSE WikiTokens(Tail(toks), added)

\* The loop over wiki_data["results"][:3], with its break at 15 terms
RECURSIVE WikiResults(_, _)
WikiResults(results, terms) ==
  IF results = <<>> THEN terms
  ELSE LET added == WikiTokens(SplitWs(Prefix(Head(results).summary, 400)), terms)
       IN IF Len(added) >= 15 THEN added ELSE WikiResults(Tail(results), added)

\* Variant: the lookup is made outside the try
ExceptWikiReraise(e, gathered) == Raise(e, gathered)

\* except Exception: pass -- what was gathered so far stays in wiki_terms
ExceptWiki(e, gathered) == Return(gathered)

\* Variant: the tokens of each result are gathered on their own and put
\* together, without the test against the terms gathered so far
WikiTermsPerResult(agent, location, target_year, styles, world) ==
  IF agent.enable_wiki /\ location # <<>>
  THEN LET wiki_data == contextual_wiki_lookup(location, target_year, styles, world)
           of(i) == IF i <= Len(wiki_data.val)
                    THEN WikiResults(<<wiki_data.val[i]>>, <<>>) ELSE <<>>
       IN IF wiki_data.raised THEN ExceptWiki(wiki_data.err, <<>>)
          ELSE Return(of(1) \o of(2) \o of(3))
  ELSE Return(<<>>)

\* wiki_terms: empty unless enable_wiki and location; an exception of the
\* lookup is swallowed and leaves what was gathered (nothing)
WikiTerms(agent, location, target_year, styles, world) ==
  IF agent.enable_wiki /\ location # <<>>
  THEN LET wiki_data == contextual_wiki_lookup(location, target_year, styles, world)
       IN IF wiki_data.raised THEN ExceptWiki(wiki_data.err, <<>>)
          ELSE Return(WikiResults(Take(wiki_data.val, 3), <<>>))
  ELSE Return(<<>>)

BaseNegatives ==
  <<<<"m","o","d","e","r","n"," ","c","a","r","s">> (* modern cars *), <<"n","e","o","n"," ","l","i","g","h","t","s">> (* neon lights *), <<"m","o","d","e","r","n"," ","s","i","g","n","a","g","e">> (* modern signage *), <<"s","k","y","s","c","r","a","p","e","r","s">> (* skyscrapers *),
    <<"c","o","n","t","e","m","p","o","r","a","r","y"," ","c","l","o","t","h","i","n","g">> (* contemporary clothing *), <<"s","m","a","r","t","p","h","o","n","e","s">> (* smartphones *), <<"e","l","e","c","t","r","i","c"," ","p","o","l","e","s">> (* electric poles *), <<"t","r","a","f","f","i","c"," ","l","i","g","h","t","s">> (* traffic lights *)>>

StyleModifiers ==
  <<<<"h","i","s","t","o","r","i","c","a","l"," ","r","e","a","l","i","s","m">> (* historical realism *), <<"r","i","c","h"," ","t","e","x","t","u","r","e">> (* rich texture *), <<"f","i","n","e"," ","d","e","t","a","i","l">> (* fine detail *),
    <<"n","a","t","u","r","a","l"," ","l","i","g","h","t","i","n","g">> (* natural lighting *), <<"f","i","l","m"," ","g","r","a","i","n">> (* film grain *), <<"h","i","g","h"," ","d","y","n","a","m","i","c"," ","r","a","n","g","e">> (* high dynamic range *)>>

\* Variant: the base list alone, without the technology of the analysis
base_neg_fixed(analysis) == BaseNegatives

\* base_neg, after the extend and the de-duplication
base_neg(analysis) ==
  Take(_dedupe(
    BaseNegatives
    \o [i \in 1..Len(Take(analysis.technology_visible, 5)) |->
          <<"m","o","d","e","r","n"," ">> (* modern  *) \o analysis.technology_visible[i]]), 15)

\* Variant: scene_type is used as it is, 'unknown' included
build_core_raw(analysis, location, target_year) ==
  Strip(StrOfInt(target_year) \o <<" ">> \o location \o <<" ">> \o analysis.scene_type)

build_core(analysis, location, target_year) ==
  LET scene == IF analysis.scene_type # Unknown THEN analysis.scene_type ELSE <<"s","c","e","n","e">> (* scene *)
  IN Strip(StrOfInt(target_year) \o <<" ">> \o location \o <<" ">> \o scene)

heuristic(analysis, context, location, target_year, wiki_terms) ==
  LET arch == analysis.architectural_elements
      styles == context.architectural_styles
      mats == context.common_materials
      mood == <<analysis.lighting_conditions, analysis.weather_atmosphere,
                analysis.time_of_day, analysis.season>>
      kept == SelectSeq(mood, LAMBDA x : x # <<>> /\ x # Unknown)
  IN [core_description |-> build_core(analysis, location, target_year),
      historical_style_tags |->
        Take(_dedupe(Take(styles, 8) \o Take(mats, 5) \o Take(wiki_terms, 6)), 10),
      architectural_details |-> Take(_dedupe(Take(arch, 10) \o Take(mats, 5)), 12),
      atmospheric_elements |-> Take(_dedupe([i \in 1..Len(kept) |-> _short(kept[i])]), 6),
      negative_prompts |-> base_neg(analysis),
      style_modifiers |-> StyleModifiers,
      composition_guidance |->
        Take(_dedupe(Take(analysis.composition_elements, 4)
                     \o <<<<"m","a","i","n","t","a","i","n"," ","o","r","i","g","i","n","a","l"," ","p","e","r","s","p","e","c","t","i","v","e">> (* maintain original perspective *)>>), 5)]

\* Variant: a string becomes a one-element list, without the split on commas
CoerceListPromptWhole(val) ==
  IF val.t = "str" THEN JList(<<val>>)
  ELSE IF val.t # "list" THEN JList(<<>>)
  ELSE val

CoerceListPrompt(val) ==
  IF val.t = "str" THEN JList([i \in 1..Len(SplitComma(val.s)) |-> JStr(SplitComma(val.s)[i])])
  ELSE IF val.t # "list" THEN JList(<<>>)
  ELSE val

\* data.setdefault('core_description', build_core()): only a missing key is set
SetDefaultCore(data, core) ==
  IF HasKey(data, FieldKey["core_description"])
  THEN DictGet(data, FieldKey["core_description"])
  ELSE JStr(core)

\* Variant: the handler returns the error record, as the other stages do
ExceptPromptsError(e, h) == Return(_error_prompts(e))

\* except Exception as e: return heuristic()
ExceptPrompts(e, h) == Return(h)

\* The rest of generate_prompt_components, after its local definitions:
\* core is the value of build_core(), h the value of heuristic(), resp what the
\* text model does
generate_prompt_components(agent, lax, core, h, resp) ==
  IF Disabled(agent) THEN Return(h)
  ELSE Called(
    IF resp.raises THEN ExceptPrompts(resp.err, h)
    ELSE LET loaded == JsonLoads(ExtractBlob(resp.text)) IN
      IF ~loaded.ok THEN Return(h)
      ELSE IF loaded.v.t # "dict" THEN Return(h)
      ELSE LET data == loaded.v
               coerced ==
                 [f \in PromptListFields \cup {"core_description"} |->
                    IF f \in PromptListFields
                    THEN CoerceListPrompt(DictGet(data, FieldKey[f]))
                    ELSE SetDefaultCore(data, core)]
               built == Construct(coerced, PromptListFields, lax)
           IN IF built.ok THEN Return(built.rec) ELSE Return(h))

(* ------------------------------------------------------------------ *)
(* Stage 4: IPAdapterPromptBuilder.build                                *)
(* ------------------------------------------------------------------ *)

RECURSIVE AppendFragments(_, _)
AppendFragments(combined, fragments) ==
  IF fragments = <<>> THEN combined
  ELSE AppendFragments(
         IF Head(fragments) # <<>> THEN combined \o <<","," ">> \o Head(fragments) ELSE combined,
         Tail(fragments))

\* Variant: the payload's lists are the prefixes used in the positive prompt
build_prefixes(components) ==
  LET frag(xs) == IF xs # <<>> THEN <<Join(<<","," ">>, xs)>> ELSE <<>>
  IN [core_prompt |->
        AppendFragments(Strip(components.core_description),
          frag(components.historical_style_tags)
          \o frag(Take(components.architectural_details, 8))
          \o frag(Take(components.atmospheric_elements, 5))
          \o frag(Take(components.style_modifiers, 8))
          \o frag(Take(components.composition_guidance, 4))),
      negative_prompt |->
        IF components.negative_prompts # <<>>
        THEN Join(<<","," ">>, components.negative_prompts)
        ELSE <<"m","o","d","e","r","n"," ","e","l","e","m","e","n","t","s",","," ","c","o","n","t","e","m","p","o","r","a","r","y"," ","c","a","r","s",","," ","m","o","d","e","r","n"," ","s","i","g","n","a","g","e",","," ","m","o","d","e","r","n"," ","c","l","o","t","h","i","n","g">> (* modern elements, contemporary cars, modern signage, modern clothing *),
      style_modifiers |-> Take(components.style_modifiers, 8),
      architectural_details |-> Take(components.architectural_details, 8),
      atmospheric_elements |-> Take(components.atmospheric_elements, 5),
      composition_guidance |-> Take(components.composition_guidance, 4),
      historical_tags |-> components.historical_style_tags]

build(components) ==
  LET base == Strip(components.core_description)
      frag(xs) == IF xs # <<>> THEN <<Join(<<","," ">>, xs)>> ELSE <<>>
      fragments ==
        frag(components.historical_style_tags)
        \o frag(Take(components.architectural_details, 8))
        \o frag(Take(components.atmospheric_elements, 5))
        \o frag(Take(components.style_modifiers, 8))
        \o frag(Take(components.composition_guidance, 4))
  IN [core_prompt |-> AppendFragments(base, fragments),
      negative_prompt |->
        IF components.negative_prompts # <<>>
        THEN Join(<<","," ">>, components.negative_prompts)
        ELSE <<"m","o","d","e","r","n"," ","e","l","e","m","e","n","t","s",","," ","c","o","n","t","e","m","p","o","r","a","r","y"," ","c","a","r","s",","," ","m","o","d","e","r","n"," ","s","i","g","n","a","g","e",","," ","m","o","d","e","r","n"," ","c","l","o","t","h","i","n","g">> (* modern elements, contemporary cars, modern signage, modern clothing *),
      style_modifiers |-> components.style_modifiers,
      architectural_details |-> components.architectural_details,
      atmospheric_elements |-> components.atmospheric_elements,
      composition_guidance |-> components.composition_guidance,
      historical_tags |-> components.historical_style_tags]

(* ------------------------------------------------------------------ *)
(* Configuration and construction: config.py, RewindAnalysisAgent.__init__ *)
(* ------------------------------------------------------------------ *)

\* Config(): env is the process environment, [api_key, prompt_only, enable_wiki]
\* (OPENAI_API_KEY set, PROMPT_ONLY in 1/true/True, REWIND_ENABLE_WIKI not in
\* 0/false/False)
Config(env) ==
  IF ~env.api_key /\ ~env.prompt_only
  THEN Raise(<<"O","P","E","N","A","I","_","A","P","I","_","K","E","Y"," ","e","n","v","i","r","o","n","m","e","n","t"," ","v","a","r","i","a","b","l","e"," ","i","s"," ","r","e","q","u","i","r","e","d"," ","(","o","r"," ","s","e","t"," ","P","R","O","M","P","T","_","O","N","L","Y","=","1",")">> (* OPENAI_API_KEY environment variable is required (or set PROMPT_ONLY=1) *),
             [openai_api_key |-> FALSE, prompt_only |-> FALSE, enable_wiki |-> FALSE])
  ELSE Return([openai_api_key |-> env.api_key, prompt_only |-> env.prompt_only,
               enable_wiki |-> env.enable_wiki])

\* RewindAnalysisAgent(config): client_ok is FALSE where OpenAI(...) raises
AgentInit(config, client_ok) ==
  [prompt_only |-> config.prompt_only,
   enable_wiki |-> config.enable_wiki,
   client |-> config.openai_api_key /\ ~config.prompt_only /\ client_ok]

NoAgent == [prompt_only |-> FALSE, enable_wiki |-> FALSE, client |-> FALSE]

(* ------------------------------------------------------------------ *)
(* The environment: requests, model responses, Wikipedia               *)
(* ------------------------------------------------------------------ *)

\* Leading and trailing words of commentary around a response body
MaxLead == 1
MaxTrail == 1

Locations == {<<>>, <<" ">>, <<"P","a","r","i","s">> (* Paris *)}
Years == {999, 1920, 2001}

RECURSIVE Dumps(_)
RECURSIVE DumpItems(_, _)

\* The tokens of the text of a JSON value
Dumps(v) ==
  CASE v.t = "str" -> <<TStr(v.s)>>
    [] v.t = "num" -> <<TNum(v.s)>>
    [] v.t = "null" -> <<TNull>>
    [] v.t = "bool" -> <<TTrue>>
    [] v.t = "list" -> <<LBrack>> \o DumpItems(v, 1) \o <<RBrack>>
    [] v.t = "dict" -> <<LBrace>> \o DumpItems(v, 1) \o <<RBrace>>

DumpItems(v, i) ==
  IF i > Len(v.a) THEN <<>>
  ELSE (IF i > 1 THEN <<Comma>> ELSE <<>>)
       \o (IF v.t = "dict" THEN <<TStr(v.k[i]), Colon>> ELSE <<>>)
       \o Dumps(v.a[i]) \o DumpItems(v, i + 1)

\* A dict from <<key, value>> pairs, a list of strings
Obj(pairs) == JDict([i \in 1..Len(pairs) |-> pairs[i][1]], [i \in 1..Len(pairs) |-> pairs[i][2]])
Strs(xs) == JList([i \in 1..Len(xs) |-> JStr(xs[i])])

Words(n) == [i \in 1..n |-> TWord(<<"n","o","t","e">> (* note *))]

\* Token sequences that are not the text of one JSON value
Malformed ==
  {<<>>, <<LBrace>>, <<RBrace, LBrace>>, <<LBrace, TStr(<<"s","c","e","n","e","_","t","y","p","e">> (* scene_type *)), RBrace>>,
   <<LBrace, TWord(<<"s","e","e">> (* see *)), LBrace, RBrace>>}

Texts(values) ==
  {Words(a) \o body \o Words(b) :
     a \in 0..MaxLead, b \in 0..MaxTrail,
     body \in {Dumps(v) : v \in values} \cup Malformed}

\* What a model call does: it raises err, or returns text
Responses(values) ==
  {[raises |-> TRUE, err |-> <<"C","o","n","n","e","c","t","i","o","n"," ","e","r","r","o","r",".">> (* Connection error. *), text |-> <<>>]}
  \cup {[raises |-> FALSE, err |-> <<>>, text |-> t] : t \in Texts(values)}

FullAnalysisValue ==
  Obj(<<
        <<<<"s","c","e","n","e","_","t","y","p","e">> (* scene_type *), JStr(<<"s","t","r","e","e","t">> (* street *))>>,
        <<<<"a","r","c","h","i","t","e","c","t","u","r","a","l","_","e","l","e","m","e","n","t","s">> (* architectural_elements *), Strs(<<<<"S","t","o","n","e">> (* Stone *), <<"s","t","o","n","e">> (* stone *), <<"B","r","i","c","k">> (* Brick *)>>)>>,
        <<<<"t","e","c","h","n","o","l","o","g","y","_","v","i","s","i","b","l","e">> (* technology_visible *), JStr(<<"c","a","r","s",","," ","p","h","o","n","e","s">> (* cars, phones *))>>,
        <<<<"l","i","g","h","t","i","n","g","_","c","o","n","d","i","t","i","o","n","s">> (* lighting_conditions *), JStr(<<" ","U","n","k","n","o","w","n">> (*  Unknown *))>>,
        <<<<"s","e","a","s","o","n">> (* season *), JStr(<<"W","i","n","t","e","r">> (* Winter *))>>,
        <<<<"c","o","m","p","o","s","i","t","i","o","n","_","e","l","e","m","e","n","t","s">> (* composition_elements *), Strs(<<<<"M","a","i","n","t","a","i","n"," ","o","r","i","g","i","n","a","l"," ","p","e","r","s","p","e","c","t","i","v","e">> (* Maintain original perspective *)>>)>> >>)

AnalysisValues ==
     {FullAnalysisValue,
      Obj(<< <<<<"A","n","a","l","y","s","i","s","R","e","s","u","l","t">> (* AnalysisResult *), Obj(<< <<<<"s","c","e","n","e","_","t","y","p","e">> (* scene_type *), JStr(<<"h","a","r","b","o","u","r">> (* harbour *))>> >>)>> >>),
      Obj(<< <<<<"A","n","a","l","y","s","i","s","R","e","s","u","l","t">> (* AnalysisResult *), JStr(<<"n","o","n","e">> (* none *))>>, <<<<"s","c","e","n","e","_","t","y","p","e">> (* scene_type *), JStr(<<"p","l","a","z","a">> (* plaza *))>> >>),
      Obj(<< <<<<"a","r","c","h","i","t","e","c","t","u","r","a","l","_","e","l","e","m","e","n","t","s">> (* architectural_elements *), JList(<<JNum(<<"1">>)>>)>> >>),
      Obj(<< <<<<"s","c","e","n","e","_","t","y","p","e">> (* scene_type *), JNum(<<"5">>)>>, <<<<"s","e","a","s","o","n">> (* season *), JNull>>,
             <<<<"v","e","h","i","c","l","e","s","_","t","r","a","n","s","p","o","r","t","a","t","i","o","n">> (* vehicles_transportation *), Obj(<< <<<<"a">>, JTrue>> >>)>> >>),
      Obj(<< <<<<"c","o","m","p","o","s","i","t","i","o","n","_","e","l","e","m","e","n","t","s">> (* composition_elements *), JList(<<Strs(<<<<"x">>>>)>>)>> >>),
      Obj(<<>>),
      Strs(<<<<"s","t","r","e","e","t">> (* street *)>>),
      JStr(<<"a"," ","s","t","r","e","e","t">> (* a street *)),
      JNull}

FullContextValue ==
  Obj(<<
        <<<<"a","r","c","h","i","t","e","c","t","u","r","a","l","_","s","t","y","l","e","s">> (* architectural_styles *), Strs(<<<<"H","a","u","s","s","m","a","n","n">> (* Haussmann *), <<"A","r","t"," ","D","e","c","o">> (* Art Deco *), <<"h","a","u","s","s","m","a","n","n"," ">> (* haussmann  *)>>)>>,
        <<<<"c","o","m","m","o","n","_","m","a","t","e","r","i","a","l","s">> (* common_materials *), JStr(<<"s","t","o","n","e",","," ","i","r","o","n",",">> (* stone, iron, *))>>,
        <<<<"t","e","c","h","n","o","l","o","g","y","_","l","e","v","e","l">> (* technology_level *), JNum(<<"3">>)>>,
        <<<<"s","o","c","i","a","l","_","c","o","n","t","e","x","t">> (* social_context *), JNull>> >>)

ContextValues ==
     {FullContextValue,
      Obj(<< <<<<"H","i","s","t","o","r","i","c","a","l","C","o","n","t","e","x","t">> (* HistoricalContext *), Obj(<< <<<<"t","y","p","i","c","a","l","_","c","l","o","t","h","i","n","g">> (* typical_clothing *), Strs(<<<<"c","l","o","c","h","e"," ","h","a","t","s">> (* cloche hats *)>>)>> >>)>> >>),
      Obj(<< <<<<"H","i","s","t","o","r","i","c","a","l","C","o","n","t","e","x","t">> (* HistoricalContext *), JStr(<<"n","o","n","e">> (* none *))>>, <<<<"n","o","t","a","b","l","e","_","e","v","e","n","t","s">> (* notable_events *), Strs(<<<<"O","l","y","m","p","i","c","s">> (* Olympics *)>>)>> >>),
      Obj(<< <<<<"a","r","c","h","i","t","e","c","t","u","r","a","l","_","s","t","y","l","e","s">> (* architectural_styles *), JList(<<JNum(<<"1">>)>>)>> >>),
      Obj(<<>>),
      Strs(<<<<"H","a","u","s","s","m","a","n","n">> (* Haussmann *)>>),
      JNull}

PromptValues ==
  LET full == Obj(<<
        <<<<"c","o","r","e","_","d","e","s","c","r","i","p","t","i","o","n">> (* core_description *), JStr(<<" ","P","a","r","i","s"," ","s","t","r","e","e","t",","," ","1","9","2","0"," ">> (*  Paris street, 1920  *))>>,
        <<<<"h","i","s","t","o","r","i","c","a","l","_","s","t","y","l","e","_","t","a","g","s">> (* historical_style_tags *), Strs(<<<<"A","r","t"," ","D","e","c","o">> (* Art Deco *), <<>>>>)>>,
        <<<<"n","e","g","a","t","i","v","e","_","p","r","o","m","p","t","s">> (* negative_prompts *), JStr(<<"c","a","r","s",","," ","p","h","o","n","e","s">> (* cars, phones *))>>,
        <<<<"s","t","y","l","e","_","m","o","d","i","f","i","e","r","s">> (* style_modifiers *), JNum(<<"7">>)>> >>)
  IN {full,
      Obj(<< <<<<"c","o","r","e","_","d","e","s","c","r","i","p","t","i","o","n">> (* core_description *), JStr(<<>>)>> >>),
      Obj(<< <<<<"c","o","r","e","_","d","e","s","c","r","i","p","t","i","o","n">> (* core_description *), JNum(<<"5">>)>> >>),
      Obj(<< <<<<"c","o","r","e","_","d","e","s","c","r","i","p","t","i","o","n">> (* core_description *), JNull>> >>),
      Obj(<< <<<<"n","e","g","a","t","i","v","e","_","p","r","o","m","p","t","s">> (* negative_prompts *), JList(<<JNum(<<"1">>)>>)>> >>),
      Obj(<< <<<<"n","e","g","a","t","i","v","e","_","p","r","o","m","p","t","s">> (* negative_prompts *), Strs(<<<<>>>>)>> >>),
      Obj(<<>>),
      Strs(<<<<"A","r","t"," ","D","e","c","o">> (* Art Deco *)>>),
      JNull}

VisionResponses == Responses(AnalysisValues)
ContextResponses == Responses(ContextValues)
PromptResponses == Responses(PromptValues)

\* What Wikipedia does: search[i] for the i-th query, summary[title] for a page
Titles == {<<"P","a","r","i","s">> (* Paris *), <<"P","a","r","i","s"," ","C","o","m","m","u","n","e">> (* Paris Commune *), <<"E","i","f","f","e","l"," ","T","o","w","e","r">> (* Eiffel Tower *)}

SearchRaises == [raises |-> TRUE, hits |-> <<>>]
Hits(titles) == [raises |-> FALSE, hits |-> [i \in 1..Len(titles) |-> [title |-> titles[i]]]]
Summary(kind, text) == [kind |-> kind, text |-> text]

WikiWorlds ==
  LET pages == [t \in Titles |->
                  IF t = <<"P","a","r","i","s">> (* Paris *) THEN Summary("ok", <<"P","a","r","i","s"," ","i","s"," ","t","h","e"," ","c","a","p","i","t","a","l"," ","(","c","i","t","y",")"," ","o","f"," ","F","r","a","n","c","e",";"," ","P","a","r","i","s",".">> (* Paris is the capital (city) of France; Paris. *))
                  ELSE IF t = <<"E","i","f","f","e","l"," ","T","o","w","e","r">> (* Eiffel Tower *) THEN Summary("ok", <<"A"," ","w","r","o","u","g","h","t","-","i","r","o","n"," ","l","a","t","t","i","c","e"," ","T","o","w","e","r",","," ","b","u","i","l","t"," ","1","8","8","9">> (* A wrought-iron lattice Tower, built 1889 *))
                  ELSE Summary("status", <<>>)]
  IN {[search |-> <<SearchRaises, SearchRaises, SearchRaises, SearchRaises, SearchRaises>>,
       summary |-> pages],
      [search |-> <<Hits(<<<<"P","a","r","i","s">> (* Paris *), <<"P","a","r","i","s"," ","C","o","m","m","u","n","e">> (* Paris Commune *)>>), Hits(<<<<"P","a","r","i","s">> (* Paris *), <<"E","i","f","f","e","l"," ","T","o","w","e","r">> (* Eiffel Tower *)>>),
                    Hits(<<>>), Hits(<<>>), Hits(<<>>)>>,
       summary |-> pages],
      [search |-> <<SearchRaises, Hits(<<<<"E","i","f","f","e","l"," ","T","o","w","e","r">> (* Eiffel Tower *)>>), Hits(<<>>), Hits(<<>>), Hits(<<>>)>>,
       summary |-> [pages EXCEPT ![<<"E","i","f","f","e","l"," ","T","o","w","e","r">> (* Eiffel Tower *)] = Summary("noextract", <<>>)]],
      [search |-> <<Hits(<<<<"P","a","r","i","s">> (* Paris *)>>), Hits(<<<<"E","i","f","f","e","l"," ","T","o","w","e","r">> (* Eiffel Tower *)>>), Hits(<<>>), Hits(<<>>), Hits(<<>>)>>,
       summary |-> [pages EXCEPT ![<<"E","i","f","f","e","l"," ","T","o","w","e","r">> (* Eiffel Tower *)] = Summary("raise", <<>>)]]}

(* ------------------------------------------------------------------ *)
(* The state machine                                                    *)
(* ------------------------------------------------------------------ *)

VARIABLES
  env,          \* the process environment read by Config.__post_init__
  lax,          \* TRUE: pydantic 1 is installed, FALSE: pydantic 2
  agent,        \* the RewindAnalysisAgent (api.py:28, main.py:20)
  pc,           \* boot, crashed, idle, analysis, context, prompts, build, respond, done
  entry,        \* the entry point of the request
  req,          \* the request as received: [image, location, year]
  analysis,     \* the AnalysisResult of the request
  context,      \* its HistoricalContext
  components,   \* its PromptComponents
  wiki_terms,   \* the enrichment tokens generate_prompt_components gathered
  payload,      \* the IPAdapterPromptPayload (main.py)
  next_steps,   \* the next_steps of the /analyze response (api.py)
  result,       \* what the caller got
  calls,        \* the stages invoked, in order
  model_calls,  \* the number of chat.completions.create calls made
  resp,         \* SpecStages: what the model does in the call under examination
  world,        \* SpecStages: what Wikipedia does in the call under examination
  arg,          \* SpecDedupe: the list _dedupe is applied to
  ret,          \* SpecDedupe: what _dedupe returned, call after call
  tasks         \* SpecConcurrent: the /analyze requests in flight on the event loop

vars == <<env, lax, agent, pc, entry, req, analysis, context, components,
          wiki_terms, payload, next_steps, result, calls, model_calls, resp, world, arg, ret, tasks>>

NoResp == [raises |-> FALSE, err |-> <<>>, text |-> <<>>]
NoWorld == [search |-> <<>>, summary |-> <<>>]

NoPayload ==
  [core_prompt |-> <<>>, negative_prompt |-> <<>>, style_modifiers |-> <<>>,
   architectural_details |-> <<>>, atmospheric_elements |-> <<>>,
   composition_guidance |-> <<>>, historical_tags |-> <<>>]

NoNextSteps ==
  [ip_adapter_prompt |-> <<>>, negative_prompt |-> <<>>, style_modifiers |-> <<>>,
   research_needed |-> <<>>]

Init ==
  /\ env \in [api_key : BOOLEAN, prompt_only : BOOLEAN, enable_wiki : BOOLEAN]
  /\ lax \in BOOLEAN
  /\ agent = NoAgent
  /\ pc = "boot"
  /\ entry = "none"
  /\ req = [image |-> "none", location |-> <<>>, year |-> 0]
  /\ analysis = AnalysisResult
  /\ context = HistoricalContext
  /\ components = PromptComponents
  /\ wiki_terms = <<>>
  /\ payload = NoPayload
  /\ next_steps = NoNextSteps
  /\ result = "none"
  /\ calls = <<>>
  /\ model_calls = 0
  /\ resp = NoResp
  /\ world = NoWorld
  /\ arg = <<>>
  /\ ret = <<>>
  /\ tasks = <<>>

\* Module import / RewindApp.__init__: Config() and RewindAnalysisAgent()
Startup ==
  /\ pc = "boot"
  /\ \E client_ok \in BOOLEAN :
       LET cfg == Config(env) IN
       IF cfg.raised
       THEN pc' = "crashed" /\ result' = "startup_error" /\ UNCHANGED agent
       ELSE pc' = "idle" /\ agent' = AgentInit(cfg.val, client_ok) /\ UNCHANGED result
  /\ UNCHANGED <<env, lax, entry, req, analysis, context, components, wiki_terms,
                 payload, next_steps, calls, model_calls, resp, world, arg, ret, tasks>>

\* main.py sync_analyze: the location check, then analyze_image_comprehensive
sync_analyze ==
  /\ pc = "idle"
  /\ \E image \in {"ok", "none"}, location \in Locations, year \in Years :
       /\ req' = [image |-> image, location |-> location, year |-> year]
       /\ IF location = <<>> \/ Strip(location) = <<>>
          THEN pc' = "done" /\ result' = "rejected"
          ELSE pc' = "analysis" /\ UNCHANGED result
  /\ entry' = "sync_analyze"
  /\ UNCHANGED <<env, lax, agent, analysis, context, components, wiki_terms,
                 payload, next_steps, calls, model_calls, resp, world, arg, ret, tasks>>

\* api.py /analyze up to the pipeline: the two checks and Image.open. The
\* HTTPException(400) is raised inside the try and leaves as a 500.
analyze_image_endpoint ==
  /\ pc = "idle"
  /\ \E image \in {"ok", "bad"}, location \in Locations, year \in Years :
       /\ req' = [image |-> image, location |-> location, year |-> year]
       /\ IF year < 1000 \/ year > 2000 THEN pc' = "done" /\ result' = "http_500"
          ELSE IF Strip(location) = <<>> THEN pc' = "done" /\ result' = "http_500"
          ELSE IF image = "bad" THEN pc' = "done" /\ result' = "http_500"
          ELSE pc' = "analysis" /\ UNCHANGED result
  /\ entry' = "analyze"
  /\ UNCHANGED <<env, lax, agent, analysis, context, components, wiki_terms,
                 payload, next_steps, calls, model_calls, resp, world, arg, ret, tasks>>

\* api.py /quick-analysis up to the stage: Image.open only
quick_analysis_endpoint ==
  /\ pc = "idle"
  /\ \E image \in {"ok", "bad"}, location \in Locations, year \in Years :
       /\ req' = [image |-> image, location |-> location, year |-> year]
       /\ IF image = "bad" THEN pc' = "done" /\ result' = "http_500"
          ELSE pc' = "analysis" /\ UNCHANGED result
  /\ entry' = "quick_analysis"
  /\ UNCHANGED <<env, lax, agent, analysis, context, components, wiki_terms,
                 payload, next_steps, calls, model_calls, resp, world, arg, ret, tasks>>

\* The location the stages receive: sync_analyze passes str(location).strip()
ArgLocation == IF entry = "sync_analyze" THEN Strip(req.location) ELSE req.location

\* What the caller gets when a stage raises: the five error strings of
\* analyze_image_comprehensive, or the HTTPException(500) of api.py
Failure == IF entry = "sync_analyze" THEN "error_strings" ELSE "http_500"

\* Step 1 of the pipeline; the whole of /quick-analysis
AnalysisStage ==
  /\ pc = "analysis"
  /\ \E r \in VisionResponses :
     \E out \in {analyze_image(agent, lax, req.image, ArgLocation, req.year, r)} :
       /\ model_calls' = model_calls + (IF out.called THEN 1 ELSE 0)
       /\ IF out.raised THEN pc' = "done" /\ result' = Failure /\ UNCHANGED analysis
          ELSE IF entry = "quick_analysis"
          THEN pc' = "done" /\ result' = "analysis" /\ analysis' = out.val
          ELSE pc' = "context" /\ UNCHANGED result /\ analysis' = out.val
  /\ calls' = Append(calls, "analyze_image")
  /\ UNCHANGED <<env, lax, agent, entry, req, context, components, wiki_terms,
                 payload, next_steps, resp, world, arg, ret, tasks>>

\* Step 2
ContextStage ==
  /\ pc = "context"
  /\ \E r \in ContextResponses :
     \E out \in {get_historical_context(agent, lax, ArgLocation, req.year, analysis, r)} :
       /\ model_calls' = model_calls + (IF out.called THEN 1 ELSE 0)
       /\ IF out.raised THEN pc' = "done" /\ result' = Failure /\ UNCHANGED context
          ELSE pc' = "prompts" /\ UNCHANGED result /\ context' = out.val
  /\ calls' = Append(calls, "get_historical_context")
  /\ UNCHANGED <<env, lax, agent, entry, req, analysis, components, wiki_terms,
                 payload, next_steps, resp, world, arg, ret, tasks>>

\* Step 3: the enrichment block, the local definitions, then the model path
PromptStage ==
  /\ pc = "prompts"
  /\ \E w \in WikiWorlds :
     \E enr \in {WikiTerms(agent, ArgLocation, req.year, context.architectural_styles, w)} :
     \E terms \in {enr.val} :
     \E core \in {build_core(analysis, ArgLocation, req.year)} :
     \E h \in {heuristic(analysis, context, ArgLocation, req.year, terms)} :
     \E r \in PromptResponses :
     \E out \in {IF enr.raised THEN enr ELSE generate_prompt_components(agent, lax, core, h, r)} :
       /\ model_calls' = model_calls + (IF out.called THEN 1 ELSE 0)
       /\ wiki_terms' = terms
       /\ IF out.raised THEN pc' = "done" /\ result' = Failure /\ UNCHANGED components
          ELSE pc' = (IF entry = "sync_analyze" THEN "build" ELSE "respond")
               /\ UNCHANGED result /\ components' = out.val
  /\ calls' = Append(calls, "generate_prompt_components")
  /\ UNCHANGED <<env, lax, agent, entry, req, analysis, context, payload, next_steps,
                 resp, world, arg, ret, tasks>>

\* main.py: payload = self.prompt_builder.build(prompt_components), then the
\* formatted outputs and the payload are returned
BuildStage ==
  /\ pc = "build"
  /\ payload' = build(components)
  /\ calls' = Append(calls, "build")
  /\ pc' = "done"
  /\ result' = "payload"
  /\ UNCHANGED <<env, lax, agent, entry, req, analysis, context, components,
                 wiki_terms, next_steps, model_calls, resp, world, arg, ret, tasks>>

\* api.py: the response of /analyze, with its next_steps
Respond ==
  /\ pc = "respond"
  /\ next_steps' =
       [ip_adapter_prompt |-> components.core_description \o <<" ">>
                              \o Join(<<" ">>, components.historical_style_tags),
        negative_prompt |-> Join(<<" ">>, components.negative_prompts),
        style_modifiers |-> components.style_modifiers,
        research_needed |-> analysis.research_suggestions]
  /\ pc' = "done"
  /\ result' = "response"
  /\ UNCHANGED <<env, lax, agent, entry, req, analysis, context, components,
                 wiki_terms, payload, calls, model_calls, resp, world, arg, ret, tasks>>

Next ==
  \/ Startup
  \/ sync_analyze
  \/ analyze_image_endpoint
  \/ quick_analysis_endpoint
  \/ AnalysisStage
  \/ ContextStage
  \/ PromptStage
  \/ BuildStage
  \/ Respond

Spec == Init /\ [][Next]_vars

(* ------------------------------------------------------------------ *)
(* SpecStages: one call of one agent method, from inputs drawn at large *)
(* ------------------------------------------------------------------ *)

\* The environments Config() accepts
StageEnvs ==
  {e \in [api_key : BOOLEAN, prompt_only : BOOLEAN, enable_wiki : BOOLEAN] :
     ~Config(e).raised}

StageRequests ==
  [image : {"ok", "none"}, location : {<<>>, <<"P","a","r","i","s">> (* Paris *)}, year : {1920, 2001}]

\* An agent with a client, to build the records of earlier stages
EnabledAgent == [prompt_only |-> FALSE, enable_wiki |-> TRUE, client |-> TRUE]

AsResponse(value) == [raises |-> FALSE, err |-> <<>>, text |-> Dumps(value)]

\* The AnalysisResult records a later stage may be handed: the fallback, the
\* error record and a record built from a model response
StageModelAnalysis ==
  analyze_image(EnabledAgent, FALSE, "ok", <<"P","a","r","i","s">> (* Paris *), 1920,
                AsResponse(FullAnalysisValue)).val

StageAnalyses ==
  {_fallback_analysis(<<>>, 0), _error_analysis(<<"C","o","n","n","e","c","t","i","o","n"," ","e","r","r","o","r",".">> (* Connection error. *)), StageModelAnalysis}

StageModelContext ==
  get_historical_context(EnabledAgent, FALSE, <<"P","a","r","i","s">> (* Paris *), 1920, AnalysisResult,
                         AsResponse(FullContextValue)).val

\* The (analysis, context) pairs generate_prompt_components may be handed
StagePairs ==
  {<<_fallback_analysis(<<>>, 0), _fallback_context(<<>>, 1920)>>,
   <<_error_analysis(<<"C","o","n","n","e","c","t","i","o","n"," ","e","r","r","o","r",".">> (* Connection error. *)), _error_context(<<"C","o","n","n","e","c","t","i","o","n"," ","e","r","r","o","r",".">> (* Connection error. *))>>,
   <<StageModelAnalysis, StageModelContext>>,
   <<StageModelAnalysis, _fallback_context(<<>>, 1920)>>,
   <<_fallback_analysis(<<>>, 0), StageModelContext>>}

InitStages ==
  /\ env \in StageEnvs
  /\ lax \in BOOLEAN
  /\ \E client_ok \in (IF env.api_key /\ ~env.prompt_only THEN BOOLEAN ELSE {FALSE}) :
       agent = AgentInit(Config(env).val, client_ok)
  /\ entry = "none"
  /\ pc \in {"call_analyze_image", "call_get_historical_context",
             "call_generate_prompt_components"}
  /\ req \in {r \in StageRequests : pc = "call_analyze_image" \/ r.image = "ok"}
  /\ \E p \in (IF pc = "call_analyze_image" THEN {<<AnalysisResult, HistoricalContext>>}
               ELSE IF pc = "call_get_historical_context"
               THEN {<<a, HistoricalContext>> : a \in StageAnalyses}
               ELSE StagePairs) :
       analysis = p[1] /\ context = p[2]
  /\ components = PromptComponents
  /\ wiki_terms = <<>>
  /\ payload = NoPayload
  /\ next_steps = NoNextSteps
  /\ result = "none"
  /\ calls = <<>>
  /\ model_calls = 0
  /\ resp \in (IF pc = "call_analyze_image" THEN VisionResponses
               ELSE IF pc = "call_get_historical_context" THEN ContextResponses
               ELSE PromptResponses)
  /\ world \in (IF pc = "call_generate_prompt_components" THEN WikiWorlds ELSE {NoWorld})
  /\ arg = <<>>
  /\ ret = <<>>
  /\ tasks = <<>>

\* await agent.analyze_image(image, location, target_year)
CallAnalyzeImage ==
  /\ pc = "call_analyze_image"
  /\ \E out \in {analyze_image(agent, lax, req.image, req.location, req.year, resp)} :
       /\ model_calls' = model_calls + (IF out.called THEN 1 ELSE 0)
       /\ result' = (IF out.raised THEN "raised" ELSE "returned")
       /\ analysis' = (IF out.raised THEN analysis ELSE out.val)
  /\ calls' = Append(calls, "analyze_image")
  /\ pc' = "returned"
  /\ UNCHANGED <<env, lax, agent, entry, req, context, components, wiki_terms,
                 payload, next_steps, resp, world, arg, ret, tasks>>

\* await agent.get_historical_context(location, target_year, analysis)
CallGetHistoricalContext ==
  /\ pc = "call_get_historical_context"
  /\ \E out \in {get_historical_context(agent, lax, req.location, req.year, analysis, resp)} :
       /\ model_calls' = model_calls + (IF out.called THEN 1 ELSE 0)
       /\ result' = (IF out.raised THEN "raised" ELSE "returned")
       /\ context' = (IF out.raised THEN context ELSE out.val)
  /\ calls' = Append(calls, "get_historical_context")
  /\ pc' = "returned"
  /\ UNCHANGED <<env, lax, agent, entry, req, analysis, components, wiki_terms,
                 payload, next_steps, resp, world, arg, ret, tasks>>

\* await agent.generate_prompt_components(analysis, context, location, target_year)
CallGeneratePromptComponents ==
  /\ pc = "call_generate_prompt_components"
  /\ \E enr \in {WikiTerms(agent, req.location, req.year, context.architectural_styles, world)} :
     \E terms \in {enr.val} :
     \E core \in {build_core(analysis, req.location, req.year)} :
     \E h \in {heuristic(analysis, context, req.location, req.year, terms)} :
     \E out \in {IF enr.raised THEN enr ELSE generate_prompt_components(agent, lax, core, h, resp)} :
       /\ model_calls' = model_calls + (IF out.called THEN 1 ELSE 0)
       /\ wiki_terms' = terms
       /\ result' = (IF out.raised THEN "raised" ELSE "returned")
       /\ components' = (IF out.raised THEN components ELSE out.val)
  /\ calls' = Append(calls, "generate_prompt_components")
  /\ pc' = "returned"
  /\ UNCHANGED <<env, lax, agent, entry, req, analysis, context, payload, next_steps,
                 resp, world, arg, ret, tasks>>

NextStages ==
  \/ CallAnalyzeImage
  \/ CallGetHistoricalContext
  \/ CallGeneratePromptComponents

SpecStages == InitStages /\ [][NextStages]_vars

\* ---------------------------------------------------------------------
\* _dedupe on its own: the helper applied to a drawn list, then to its own
\* result (agents.py:190-196)
\* ---------------------------------------------------------------------
MaxSeq == 3

DedupeItems == {<<"S","t","o","n","e">> (* Stone *), <<"s","t","o","n","e">> (* stone *), <<" ","s","t","o","n","e"," ">> (*  stone  *), <<"B","r","i","c","k">> (* Brick *), <<>>, <<" ">>}

DedupeArgs == UNION {[1..n -> DedupeItems] : n \in 0..MaxSeq}

InitDedupe ==
  /\ env = [api_key |-> FALSE, prompt_only |-> FALSE, enable_wiki |-> FALSE]
  /\ lax = FALSE
  /\ agent = NoAgent
  /\ pc = "call_dedupe"
  /\ entry = "none"
  /\ req = [image |-> "none", location |-> <<>>, year |-> 0]
  /\ analysis = AnalysisResult
  /\ context = HistoricalContext
  /\ components = PromptComponents
  /\ wiki_terms = <<>>
  /\ payload = NoPayload
  /\ next_steps = NoNextSteps
  /\ result = "none"
  /\ calls = <<>>
  /\ model_calls = 0
  /\ resp = NoResp
  /\ world = NoWorld
  /\ arg \in DedupeArgs
  /\ ret = <<>>
  /\ tasks = <<>>

\* _dedupe(seq): first of the argument, then of what the call before returned
CallDedupe ==
  /\ pc = "call_dedupe"
  /\ Len(ret) < 2
  /\ ret' = Append(ret, _dedupe(IF ret = <<>> THEN arg ELSE ret[Len(ret)]))
  /\ UNCHANGED <<env, lax, agent, pc, entry, req, analysis, context, components,
                 wiki_terms, payload, next_steps, result, calls, model_calls,
                 resp, world, arg, tasks>>

NextDedupe == CallDedupe

SpecDedupe == InitDedupe /\ [][NextDedupe]_vars

\* ---------------------------------------------------------------------
\* Requests in flight: two /analyze requests served by the one module-level
\* agent (api.py:28), each suspended between its stages, their stages
\* interleaved in any order. What each request holds is local to its handler.
\* ---------------------------------------------------------------------
TaskIds == {1, 2}

ConcurrentRequests ==
  {[image |-> "ok", location |-> <<"P","a","r","i","s">> (* Paris *), year |-> 1920],
   [image |-> "ok", location |-> <<"R","o","m","e">> (* Rome *), year |-> 1850]}

ConnectionError == [raises |-> TRUE, err |-> <<"C","o","n","n","e","c","t","i","o","n"," ","e","r","r","o","r",".">> (* Connection error. *), text |-> <<>>]

\* What the model and Wikipedia do for one request: one response per call
ConcurrentScripts ==
  [rv : {ConnectionError, AsResponse(FullAnalysisValue)},
   rc : {AsResponse(FullContextValue), AsResponse(JNull)},
   rp : {ConnectionError, AsResponse(Obj(<<>>))},
   w : {w \in WikiWorlds : w.summary[<<"E","i","f","f","e","l"," ","T","o","w","e","r">> (* Eiffel Tower *)].kind = "ok"}]

NewTask(r, script) ==
  [req |-> r, script |-> script, pc |-> "analysis",
   analysis |-> AnalysisResult, context |-> HistoricalContext,
   components |-> PromptComponents, next_steps |-> NoNextSteps, result |-> "none"]

InitConcurrent ==
  /\ env = [api_key |-> TRUE, prompt_only |-> FALSE, enable_wiki |-> TRUE]
  /\ lax = FALSE
  /\ agent = AgentInit(Config(env).val, TRUE)
  /\ pc = "serving"
  /\ entry = "analyze"
  /\ req = [image |-> "none", location |-> <<>>, year |-> 0]
  /\ analysis = AnalysisResult
  /\ context = HistoricalContext
  /\ components = PromptComponents
  /\ wiki_terms = <<>>
  /\ payload = NoPayload
  /\ next_steps = NoNextSteps
  /\ result = "none"
  /\ calls = <<>>
  /\ model_calls = 0
  /\ resp = NoResp
  /\ world = NoWorld
  /\ arg = <<>>
  /\ ret = <<>>
  /\ tasks \in [TaskIds -> {NewTask(r, sc) : r \in ConcurrentRequests, sc \in ConcurrentScripts}]

\* Variant: the analysis is read from one place that every request shares,
\* which holds the record of request 1
LocalAnalysisOfFirst(ts, i) == ts[1].analysis

\* The local variable analysis of the handler of request i (api.py:63)
LocalAnalysis(ts, i) == ts[i].analysis

\* What a request turns into when its stage returned out and stored it in field
AfterStage(t, out, field, nextpc) ==
  IF out.raised THEN [t EXCEPT !.pc = "done", !.result = "http_500"]
  ELSE [t EXCEPT ![field] = out.val, !.pc = nextpc]

\* analysis = await analysis_agent.analyze_image(pil_image, location, target_year)
TaskAnalysis ==
  /\ pc = "serving"
  /\ \E i \in TaskIds :
       /\ tasks[i].pc = "analysis"
       /\ \E out \in {analyze_image(agent, lax, tasks[i].req.image, tasks[i].req.location,
                                     tasks[i].req.year, tasks[i].script.rv)} :
            /\ tasks' = [tasks EXCEPT ![i] = AfterStage(@, out, "analysis", "context")]
            /\ model_calls' = model_calls + (IF out.called THEN 1 ELSE 0)
  /\ UNCHANGED <<env, lax, agent, pc, entry, req, analysis, context, components,
                 wiki_terms, payload, next_steps, result, calls, resp, world,
                 arg, ret>>

\* historical_context = await analysis_agent.get_historical_context(...)
TaskContext ==
  /\ pc = "serving"
  /\ \E i \in TaskIds :
       /\ tasks[i].pc = "context"
       /\ \E out \in {get_historical_context(agent, lax, tasks[i].req.location,
                          tasks[i].req.year, LocalAnalysis(tasks, i), tasks[i].script.rc)} :
            /\ tasks' = [tasks EXCEPT ![i] = AfterStage(@, out, "context", "prompts")]
            /\ model_calls' = model_calls + (IF out.called THEN 1 ELSE 0)
  /\ UNCHANGED <<env, lax, agent, pc, entry, req, analysis, context, components,
                 wiki_terms, payload, next_steps, result, calls, resp, world,
                 arg, ret>>

\* prompt_components = await analysis_agent.generate_prompt_components(...)
TaskPrompts ==
  /\ pc = "serving"
  /\ \E i \in TaskIds :
       /\ tasks[i].pc = "prompts"
       /\ \E t \in {tasks[i]} :
          \E a \in {LocalAnalysis(tasks, i)} :
          \E enr \in {WikiTerms(agent, t.req.location, t.req.year,
                                t.context.architectural_styles, t.script.w)} :
          \E core \in {build_core(a, t.req.location, t.req.year)} :
          \E h \in {heuristic(a, t.context, t.req.location, t.req.year, enr.val)} :
          \E out \in {IF enr.raised THEN enr
                      ELSE generate_prompt_components(agent, lax, core, h, t.script.rp)} :
            /\ tasks' = [tasks EXCEPT ![i] = AfterStage(@, out, "components", "respond")]
            /\ model_calls' = model_calls + (IF out.called THEN 1 ELSE 0)
  /\ UNCHANGED <<env, lax, agent, pc, entry, req, analysis, context, components,
                 wiki_terms, payload, next_steps, result, calls, resp, world,
                 arg, ret>>

\* The response of /analyze, with its next_steps
TaskRespond ==
  /\ pc = "serving"
  /\ \E i \in TaskIds :
       /\ tasks[i].pc = "respond"
       /\ tasks' = [tasks EXCEPT ![i] =
            [@ EXCEPT !.pc = "done", !.result = "response",
               !.next_steps =
                 [ip_adapter_prompt |-> tasks[i].components.core_description \o <<" ">>
                      \o Join(<<" ">>, tasks[i].components.historical_style_tags),
                  negative_prompt |-> Join(<<" ">>, tasks[i].components.negative_prompts),
                  style_modifiers |-> tasks[i].components.style_modifiers,
                  research_needed |-> LocalAnalysis(tasks, i).research_suggestions]]]
  /\ UNCHANGED <<env, lax, agent, pc, entry, req, analysis, context, components,
                 wiki_terms, payload, next_steps, result, calls, model_calls, resp,
                 world, arg, ret>>

NextConcurrent ==
  \/ TaskAnalysis
  \/ TaskContext
  \/ TaskPrompts
  \/ TaskRespond

SpecConcurrent == InitConcurrent /\ [][NextConcurrent]_vars

\* ---------------------------------------------------------------------
\* Stages 2 to 4 on drawn records: get_historical_context,
\* generate_prompt_components (heuristic path, with the enrichment) or build,
\* called once on records and lookups of every shape the caps, prefixes and
\* filters of the code distinguish
\* ---------------------------------------------------------------------
SynthesisMoods ==
  {<<Unknown, Unknown, Unknown, Unknown>>,
   <<<<" ","U","n","k","n","o","w","n">> (*  Unknown *), <<"c","l","e","a","r">> (* clear *), <<"d","a","y","t","i","m","e">> (* daytime *), Unknown>>,
   <<<<"G","o","l","d","e","n"," ","H","o","u","r">> (* Golden Hour *), <<"g","o","l","d","e","n"," ","h","o","u","r">> (* golden hour *), <<"d","u","s","k">> (* dusk *), <<"W","i","n","t","e","r">> (* Winter *)>>,
   <<<<"a"," ","v","e","r","y"," ","l","o","n","g"," ","d","e","s","c","r","i","p","t","i","o","n"," ","o","f"," ","t","h","e"," ","l","i","g","h","t"," ","t","h","a","t"," ","g","o","e","s"," ","o","n"," ","a","n","d"," ","o","n"," ","a","n","d"," ","o","n">> (* a very long description of the light that goes on and on and on *), <<"U","n","k","n","o","w","n"," ">> (* Unknown  *), <<>>, <<" "," ">>>>}

SynthesisAnalyses ==
  {[AnalysisResult EXCEPT
      !.scene_type = st,
      !.architectural_elements = sz[1],
      !.technology_visible = sz[2],
      !.lighting_conditions = mood[1],
      !.weather_atmosphere = mood[2],
      !.time_of_day = mood[3],
      !.season = mood[4],
      !.composition_elements = ce] :
     st \in {Unknown, <<"s","t","r","e","e","t">> (* street *), <<"u","r","b","a","n"," ","s","c","e","n","e">> (* urban scene *), <<>>},
     sz \in {<< <<>>, <<>> >>,
             << <<<<"a","r","c","h","e","s">> (* arches *), <<"A","r","c","h","e","s">> (* Arches *), <<"s","t","o","n","e">> (* stone *)>>, <<<<"c","a","r","s">> (* cars *), <<"P","h","o","n","e","s">> (* Phones *)>> >>,
             << <<<<"a","r","c","h","e","s">> (* arches *), <<"b","a","l","c","o","n","i","e","s">> (* balconies *), <<"c","o","r","n","i","c","e","s">> (* cornices *), <<"d","o","m","e","s">> (* domes *), <<"e","a","v","e","s">> (* eaves *), <<"f","r","i","e","z","e","s">> (* friezes *),
                  <<"g","a","b","l","e","s">> (* gables *), <<"h","a","l","l","s">> (* halls *), <<"i","n","n","s">> (* inns *), <<"j","a","m","b","s">> (* jambs *), <<"k","e","e","p","s">> (* keeps *)>>,
                <<<<"r","a","d","i","o","s">> (* radios *), <<"t","r","a","m","s">> (* trams *), <<"t","e","l","e","g","r","a","p","h","s">> (* telegraphs *), <<"l","a","m","p","s">> (* lamps *), <<"c","a","m","e","r","a","s">> (* cameras *), <<"l","i","f","t","s">> (* lifts *)>> >>},
     mood \in SynthesisMoods,
     ce \in {<<>>, <<<<"M","a","i","n","t","a","i","n"," ","o","r","i","g","i","n","a","l"," ","p","e","r","s","p","e","c","t","i","v","e">> (* Maintain original perspective *)>>,
             <<<<" ","m","a","i","n","t","a","i","n"," ","o","r","i","g","i","n","a","l"," ","p","e","r","s","p","e","c","t","i","v","e">> (*  maintain original perspective *)>>,
             <<<<"l","o","w"," ","h","o","r","i","z","o","n">> (* low horizon *), <<"w","i","d","e"," ","s","t","r","e","e","t">> (* wide street *), <<"t","r","e","e","s">> (* trees *), <<"c","r","o","w","d">> (* crowd *), <<"r","i","v","e","r">> (* river *)>>}}

SynthesisContexts ==
  {[HistoricalContext EXCEPT !.architectural_styles = st, !.common_materials = m] :
     st \in {<<>>, <<<<"H","a","u","s","s","m","a","n","n">> (* Haussmann *), <<"A","r","t"," ","D","e","c","o">> (* Art Deco *), <<"G","o","t","h","i","c">> (* Gothic *), <<"B","a","r","o","q","u","e">> (* Baroque *), <<"R","o","c","o","c","o">> (* Rococo *),
                    <<"E","m","p","i","r","e">> (* Empire *), <<"B","e","a","u","x","-","A","r","t","s">> (* Beaux-Arts *), <<"A","r","t"," ","N","o","u","v","e","a","u">> (* Art Nouveau *), <<"R","o","m","a","n","e","s","q","u","e">> (* Romanesque *)>>},
     m \in {<<>>, <<<<"s","t","o","n","e">> (* stone *), <<"i","r","o","n">> (* iron *), <<"b","r","i","c","k">> (* brick *), <<"g","l","a","s","s">> (* glass *), <<"s","l","a","t","e">> (* slate *), <<"z","i","n","c">> (* zinc *)>>}}

SynthesisPages ==
  [t \in {<<"P","a","r","i","s">> (* Paris *), <<"S","e","i","n","e">> (* Seine *), <<"L","o","u","v","r","e">> (* Louvre *), <<"M","o","n","t","m","a","r","t","r","e">> (* Montmartre *), <<"M","a","r","a","i","s">> (* Marais *), <<"B","a","s","t","i","l","l","e">> (* Bastille *), <<"L","o","n","g">> (* Long *)} |->
     IF t = <<"P","a","r","i","s">> (* Paris *)
     THEN Summary("ok", <<"P","a","r","i","s"," ","i","s"," ","t","h","e"," ","c","a","p","i","t","a","l"," ","(","c","i","t","y",")"," ","o","f"," ","F","r","a","n","c","e",";"," ","f","o","u","n","d","e","d"," ","2","5","0"," ","B","C","."," ","C","a","f","e","s",","," ","b","o","u","l","e","v","a","r","d","s"," ","a","n","d"," ","g","a","r","d","e","n","s"," ","l","i","n","e"," ","i","t","s"," ","o","l","d"," ","q","u","a","r","t","e","r","s">> (* Paris is the capital (city) of France; founded 250 BC. Cafes, boulevards and gardens line its old quarters *))
     ELSE IF t = <<"S","e","i","n","e">> (* Seine *) THEN Summary("ok", <<"T","h","e"," ","S","e","i","n","e"," ","r","i","v","e","r"," ","f","l","o","w","s"," ","t","h","r","o","u","g","h"," ","P","a","r","i","s"," ","t","o","w","a","r","d","s"," ","N","o","r","m","a","n","d","y">> (* The Seine river flows through Paris towards Normandy *))
     ELSE IF t = <<"L","o","u","v","r","e">> (* Louvre *) THEN Summary("ok", <<"A"," ","p","a","l","a","c","e",","," ","n","o","w"," ","m","u","s","e","u","m",":"," ","p","a","i","n","t","i","n","g","s"," ","s","c","u","l","p","t","u","r","e"," ","a","n","t","i","q","u","i","t","i","e","s">> (* A palace, now museum: paintings sculpture antiquities *))
     ELSE IF t = <<"M","o","n","t","m","a","r","t","r","e">> (* Montmartre *) THEN Summary("ok", <<"H","i","l","l"," ","o","f"," ","w","i","n","d","m","i","l","l","s">> (* Hill of windmills *))
     ELSE IF t = <<"M","a","r","a","i","s">> (* Marais *) THEN Summary("ok", <<"M","e","d","i","e","v","a","l"," ","m","a","n","s","i","o","n","s">> (* Medieval mansions *))
     ELSE IF t = <<"B","a","s","t","i","l","l","e">> (* Bastille *) THEN Summary("status", <<>>)
     ELSE Summary("ok", [i \in 1..396 |-> <<"s","t","o","n","e"," ">> (* stone  *)[((i - 1) % 6) + 1]] \o <<"a","b","c","d","e","f","g","h"," ","z","z","z">> (* abcdefgh zzz *))]

SynthesisWorlds ==
  {[search |-> <<SearchRaises, SearchRaises, SearchRaises, SearchRaises, SearchRaises>>,
    summary |-> SynthesisPages],
   [search |-> <<Hits(<<<<"P","a","r","i","s">> (* Paris *), <<"L","o","u","v","r","e">> (* Louvre *)>>), Hits(<<<<"S","e","i","n","e">> (* Seine *)>>), Hits(<<>>), Hits(<<>>),
                 Hits(<<>>)>>,
    summary |-> SynthesisPages],
   [search |-> <<Hits(<<<<"M","o","n","t","m","a","r","t","r","e">> (* Montmartre *), <<"M","a","r","a","i","s">> (* Marais *)>>), Hits(<<<<"M","o","n","t","m","a","r","t","r","e">> (* Montmartre *), <<"B","a","s","t","i","l","l","e">> (* Bastille *)>>),
                 Hits(<<<<"B","a","s","t","i","l","l","e">> (* Bastille *), <<"S","e","i","n","e">> (* Seine *)>>), Hits(<<<<"L","o","u","v","r","e">> (* Louvre *), <<"M","a","r","a","i","s">> (* Marais *)>>),
                 Hits(<<<<"P","a","r","i","s">> (* Paris *), <<"L","o","n","g">> (* Long *)>>)>>,
    summary |-> SynthesisPages],
   [search |-> <<Hits(<<<<"L","o","n","g">> (* Long *)>>), SearchRaises, Hits(<<<<"S","e","i","n","e">> (* Seine *), <<"L","o","n","g">> (* Long *)>>), Hits(<<>>),
                 Hits(<<>>)>>,
    summary |-> SynthesisPages]}

\* PromptComponents records a model response can be built into
SynthesisComponents ==
  {[PromptComponents EXCEPT !.core_description = cd, !.historical_style_tags = tags,
                            !.architectural_details = rest[1],
                            !.atmospheric_elements = rest[2],
                            !.negative_prompts = rest[3],
                            !.style_modifiers = rest[4],
                            !.composition_guidance = rest[5]] :
     cd \in {<<"1","9","2","0"," ","P","a","r","i","s"," ","s","t","r","e","e","t">> (* 1920 Paris street *), <<" ","P","a","r","i","s"," ","s","t","r","e","e","t",","," ","1","9","2","0"," ">> (*  Paris street, 1920  *), <<>>},
     tags \in {<<>>, <<<<"A","r","t"," ","D","e","c","o">> (* Art Deco *)>>, <<<<"A","r","t"," ","D","e","c","o">> (* Art Deco *), <<>>>>, <<<<>>>>},
     rest \in {<< <<>>, <<>>, <<>>, <<>>, <<>> >>,
               << <<<<"a","r","c","h","e","s">> (* arches *)>>, <<<<"d","u","s","k">> (* dusk *)>>, <<<<"c","a","r","s">> (* cars *), <<"p","h","o","n","e","s">> (* phones *)>>, StyleModifiers,
                  <<<<"l","o","w"," ","h","o","r","i","z","o","n">> (* low horizon *)>> >>,
               << <<<<"a","1">>, <<"a","2">>, <<"a","3">>, <<"a","4">>, <<"a","5">>, <<"a","6">>, <<"a","7">>, <<"a","8">>, <<"a","9">>>>,
                  <<<<"m","1">>, <<"m","2">>, <<"m","3">>, <<"m","4">>, <<"m","5">>, <<"m","6">>>>,
                  <<<<>>>>,
                  <<<<"s","1">>, <<"s","2">>, <<"s","3">>, <<"s","4">>, <<"s","5">>, <<"s","6">>, <<"s","7">>, <<"s","8">>, <<"s","9">>>>,
                  <<<<"c","1">>, <<"c","2">>, <<"c","3">>, <<"c","4">>, <<"c","5">>>> >>}}

InitSynthesis ==
  /\ env = [api_key |-> FALSE, prompt_only |-> TRUE, enable_wiki |-> TRUE]
  /\ lax = FALSE
  /\ pc \in {"call_get_historical_context", "call_generate_prompt_components", "call_build"}
  /\ agent \in {[prompt_only |-> pc # "call_get_historical_context",
                  enable_wiki |-> w,
                  client |-> pc = "call_get_historical_context"] :
                   w \in (IF pc = "call_generate_prompt_components" THEN BOOLEAN ELSE {TRUE})}
  /\ entry = "none"
  /\ req = [image |-> "ok", location |-> <<"P","a","r","i","s">> (* Paris *), year |-> 1920]
  /\ analysis \in (IF pc = "call_build" THEN {AnalysisResult} ELSE SynthesisAnalyses)
  /\ context \in (IF pc = "call_generate_prompt_components" THEN SynthesisContexts
                   ELSE {HistoricalContext})
  /\ components \in (IF pc = "call_build" THEN SynthesisComponents ELSE {PromptComponents})
  /\ wiki_terms = <<>>
  /\ payload = NoPayload
  /\ next_steps = NoNextSteps
  /\ result = "none"
  /\ calls = <<>>
  /\ model_calls = 0
  /\ resp \in (IF pc = "call_get_historical_context"
                THEN {ConnectionError, AsResponse(FullContextValue)} ELSE {NoResp})
  /\ world \in (IF pc = "call_generate_prompt_components" THEN SynthesisWorlds ELSE {NoWorld})
  /\ arg = <<>>
  /\ ret = <<>>
  /\ tasks = <<>>

\* payload = self.prompt_builder.build(prompt_components): on drawn
\* components, or on the ones generate_prompt_components just returned
CallBuild ==
  /\ <<pc, calls>> \in {<<"call_build", <<>> >>,
                         <<"returned", <<"generate_prompt_components">> >>}
  /\ payload' = build(components)
  /\ calls' = Append(calls, "build")
  /\ pc' = "returned"
  /\ result' = "payload"
  /\ UNCHANGED <<env, lax, agent, entry, req, analysis, context, components,
                 wiki_terms, next_steps, model_calls, resp, world, arg, ret, tasks>>

NextSynthesis ==
  \/ CallGetHistoricalContext
  \/ CallGeneratePromptComponents
  \/ CallBuild

SpecSynthesis == InitSynthesis /\ [][NextSynthesis]_vars

(* ------------------------------------------------------------------ *)
(* Properties                                                           *)
(* ------------------------------------------------------------------ *)

\* The request is valid input: an image, a location with a character that is
\* not blank, a year in 1000..2000
InputValid ==
  /\ req.image = "ok"
  /\ Strip(req.location) # <<>>
  /\ req.year >= 1000 /\ req.year <= 2000

\* xs is a list whose elements are all str
ListOfStr(xs) == \A i \in 1..Len(xs) : xs[i] # NonStr

\* The capability is disabled: prompt_only set, or no client
CapabilityOff == agent.prompt_only \/ ~agent.client

\* The payload has its seven fields, each of its type
PayloadComplete ==
  /\ DOMAIN payload = DOMAIN NoPayload
  /\ payload.core_prompt # NonStr
  /\ payload.negative_prompt # NonStr
  /\ \A f \in {"style_modifiers", "architectural_details", "atmospheric_elements",
               "composition_guidance", "historical_tags"} : ListOfStr(payload[f])

\* The stages of analyze_image_comprehensive, in order
PipelineStages ==
  <<"analyze_image", "get_historical_context", "generate_prompt_components", "build">>

\* How many stages have run when the pipeline is at pc
StagesRunAt ==
  [p \in {"analysis", "context", "prompts", "build", "done"} |->
     CASE p = "analysis" -> 0 [] p = "context" -> 1 [] p = "prompts" -> 2
       [] p = "build" -> 3 [] p = "done" -> 4]

\* C1: a request with valid input, whatever the model calls and the lookups
\* do (return any text or raise), runs the four stages in order, one step
\* each and never one twice, so that it ends after four steps, and returns a
\* complete payload; no failure leaves the pipeline (the run never ends in the
\* error strings).
C1_PipelineReturnsPayload ==
  (entry = "sync_analyze" /\ InputValid) =>
    /\ result \in {"none", "payload"}
    /\ pc \in DOMAIN StagesRunAt
    /\ calls = Take(PipelineStages, StagesRunAt[pc])
    /\ (pc = "done" => result = "payload" /\ PayloadComplete)
    /\ (pc # "done" => result = "none")

\* C1 witness: a valid request whose vision call raised, and whose pipeline
\* went on through two more model calls to a payload
C1_Witness ==
  /\ entry = "sync_analyze" /\ InputValid
  /\ pc = "done" /\ result = "payload"
  /\ analysis = _error_analysis(<<"C","o","n","n","e","c","t","i","o","n"," ","e","r","r","o","r",".">> (* Connection error. *))
  /\ model_calls = 3
  /\ PayloadComplete

\* C2: invalid input (no image, a blank location, a year outside 1000..2000)
\* is rejected before any stage runs, on every entry point.
C2_InvalidInputRunsNoStage ==
  (entry # "none" /\ ~InputValid) => calls = <<>>

\* C3: every record a stage returns has lists of str in its list fields and
\* a str in each scalar field, whatever the model answered.
C3_RecordShape ==
  pc = "returned" =>
    /\ \A f \in AnalysisListFields : ListOfStr(analysis[f])
    /\ \A f \in AnalysisScalarFields : analysis[f] # NonStr
    /\ \A f \in ContextListFields : ListOfStr(context[f])
    /\ \A f \in PromptListFields : ListOfStr(components[f])
    /\ components.core_description # NonStr

\* C3 witness: a response whose list holds a number, taken by a lenient
\* pydantic, and returned as a list of str
C3_Witness ==
  /\ pc = "returned" /\ calls = <<"analyze_image">> /\ model_calls = 1
  /\ lax /\ ~resp.raises
  /\ JsonLoads(ExtractBlob(resp.text)).ok
  /\ analysis.architectural_elements = <<<<"1">>>>

\* _fallback_analysis has no use for its arguments
FixedFallbackAnalysis == _fallback_analysis(<<>>, 0)

\* C4: with the capability disabled no stage calls the model, analyze_image
\* returns one fixed record whatever the image, location and year, and
\* get_historical_context returns the fallback of (location, year) whatever
\* the analysis it is given.
C4_DisabledIsDeterministic ==
  (pc = "returned" /\ CapabilityOff) =>
    /\ model_calls = 0
    /\ result = "returned"
    /\ (calls = <<"analyze_image">> => analysis = FixedFallbackAnalysis)
    /\ (calls = <<"get_historical_context">> =>
          context = _fallback_context(req.location, req.year))
    /\ (calls = <<"generate_prompt_components">> =>
          components = heuristic(analysis, context, req.location, req.year, wiki_terms))

\* C4 witness: a key is set but no client could be built, and the context of
\* 2001 was asked for with an analysis that came from the model
C4_Witness ==
  /\ pc = "returned" /\ calls = <<"get_historical_context">>
  /\ ~agent.prompt_only /\ ~agent.client
  /\ analysis = StageModelAnalysis
  /\ req.year = 2001
  /\ context.technology_level = <<<<"2","0","0","1"," ","t","e","c","h","n","o","l","o","g","y">> (* 2001 technology *)>>

\* C5: a capability that was never configured (no key, heuristic mode not
\* selected) is no error: construction raises nothing.
C5_UnconfiguredStartsUp ==
  (~env.api_key /\ ~env.prompt_only) => pc # "crashed"

\* What json.loads made of the response under examination
Parsed == JsonLoads(ExtractBlob(resp.text))

\* pydantic rejects v as a List[str]: a list with an element that is no str
\* (for the lenient pydantic: neither a str, a number nor a boolean)
BadList(v) ==
  /\ v.t = "list"
  /\ \E i \in 1..Len(v.a) :
       ~(v.a[i].t = "str" \/ (lax /\ v.a[i].t \in {"num", "bool"}))

\* The mapping the vision response holds once unwrapped
VisionMapping ==
  IF HasKey(Parsed.v, <<"A","n","a","l","y","s","i","s","R","e","s","u","l","t">> (* AnalysisResult *)) /\ DictGet(Parsed.v, <<"A","n","a","l","y","s","i","s","R","e","s","u","l","t">> (* AnalysisResult *)).t = "dict"
  THEN DictGet(Parsed.v, <<"A","n","a","l","y","s","i","s","R","e","s","u","l","t">> (* AnalysisResult *))
  ELSE Parsed.v

\* The vision response parses to a mapping that fails record construction
VisionFailsConstruction ==
  /\ Parsed.ok /\ Parsed.v.t = "dict"
  /\ \E f \in AnalysisListFields : BadList(DictGet(VisionMapping, FieldKey[f]))

\* The vision response is malformed: no JSON, no mapping, or a mapping that
\* fails record construction
VisionMalformed ==
  \/ ~Parsed.ok
  \/ Parsed.v.t # "dict"
  \/ VisionFailsConstruction

\* analyze_image ran with a client and an image, and the model answered
VisionAnswered ==
  /\ pc = "returned" /\ calls = <<"analyze_image">>
  /\ ~agent.prompt_only /\ agent.client
  /\ req.image = "ok"
  /\ ~resp.raises

\* What analyze_image returns for the same request with the capability disabled
DisabledPathAnalysis ==
  analyze_image([prompt_only |-> TRUE, enable_wiki |-> FALSE, client |-> FALSE],
                lax, req.image, req.location, req.year, resp).val

\* C6: with the capability enabled, a malformed vision response (no JSON,
\* no mapping, or a mapping that fails record construction) makes
\* analyze_image return the record of the disabled path, and raise nothing.
C6_MalformedVisionFallsBack ==
  (VisionAnswered /\ VisionMalformed) =>
    /\ result = "returned"
    /\ analysis = DisabledPathAnalysis
    /\ model_calls = 1

\* C6 witness: a mapping that failed record construction came back as the
\* fallback record
C6_Witness ==
  /\ VisionAnswered /\ VisionFailsConstruction
  /\ result = "returned"
  /\ analysis.scene_type = <<"u","r","b","a","n"," ","s","c","e","n","e">> (* urban scene *)

\* C7: when the vision call raises, analyze_image returns (and does not
\* raise) the error record: clarification_questions holds the one entry with
\* the error text, every other list is empty, every scalar is "unknown", and
\* the record is not the fallback record.
C7_FailedCallGivesErrorRecord ==
  (pc = "returned" /\ calls = <<"analyze_image">> /\ ~agent.prompt_only /\ agent.client
     /\ req.image = "ok" /\ resp.raises) =>
    /\ result = "returned"
    /\ analysis.clarification_questions = <<<<"E","r","r","o","r",":"," ">> (* Error:  *) \o resp.err>>
    /\ \A f \in AnalysisListFields \ {"clarification_questions"} : analysis[f] = <<>>
    /\ \A f \in AnalysisScalarFields : analysis[f] = <<"u","n","k","n","o","w","n">> (* unknown *)
    /\ analysis # DisabledPathAnalysis

\* C7 witness: the call raised "Connection error." and the record carries it
C7_Witness ==
  /\ pc = "returned" /\ calls = <<"analyze_image">> /\ agent.client /\ req.image = "ok"
  /\ resp.raises /\ model_calls = 1
  /\ analysis.clarification_questions = <<<<"E","r","r","o","r",":"," ","C","o","n","n","e","c","t","i","o","n"," ","e","r","r","o","r",".">> (* Error: Connection error. *)>>

\* The context response is malformed: no JSON, no mapping once unwrapped one
\* level, or a mapping that fails record construction
ContextUnwrapsToNoMapping ==
  /\ Parsed.ok /\ Parsed.v.t = "dict"
  /\ HasKey(Parsed.v, <<"H","i","s","t","o","r","i","c","a","l","C","o","n","t","e","x","t">> (* HistoricalContext *))
  /\ DictGet(Parsed.v, <<"H","i","s","t","o","r","i","c","a","l","C","o","n","t","e","x","t">> (* HistoricalContext *)).t # "dict"

ContextMapping ==
  IF HasKey(Parsed.v, <<"H","i","s","t","o","r","i","c","a","l","C","o","n","t","e","x","t">> (* HistoricalContext *))
  THEN DictGet(Parsed.v, <<"H","i","s","t","o","r","i","c","a","l","C","o","n","t","e","x","t">> (* HistoricalContext *))
  ELSE Parsed.v

ContextMalformed ==
  \/ ~Parsed.ok
  \/ Parsed.v.t # "dict"
  \/ ContextUnwrapsToNoMapping
  \/ \E f \in ContextListFields : BadList(DictGet(ContextMapping, FieldKey[f]))

\* C8: get_historical_context, with the capability enabled, never raises; a
\* malformed response yields the fallback of (location, year); a call that
\* raises yields the error record: social_context holds the error text and
\* every other field is empty.
C8_ContextThreeTiers ==
  (pc = "returned" /\ calls = <<"get_historical_context">>
     /\ ~agent.prompt_only /\ agent.client) =>
    /\ result = "returned"
    /\ model_calls = 1
    /\ (resp.raises =>
          /\ context.social_context = <<<<"E","r","r","o","r",":"," ">> (* Error:  *) \o resp.err>>
          /\ \A f \in ContextListFields \ {"social_context"} : context[f] = <<>>)
    /\ ((~resp.raises /\ ContextMalformed) =>
          context = _fallback_context(req.location, req.year))

\* C8 witness: a mapping whose HistoricalContext entry is no mapping came back
\* as the fallback of 2001
C8_Witness ==
  /\ pc = "returned" /\ calls = <<"get_historical_context">> /\ agent.client
  /\ ~resp.raises /\ ContextUnwrapsToNoMapping
  /\ req.year = 2001
  /\ context.architectural_styles = <<<<"2","0","0","1"," ","p","e","r","i","o","d"," ","a","r","c","h","i","t","e","c","t","u","r","e">> (* 2001 period architecture *)>>

\* get_historical_context returned with the capability disabled, for a
\* location that is not empty
FallbackContextReturned ==
  /\ pc = "returned" /\ calls = <<"get_historical_context">>
  /\ CapabilityOff
  /\ req.location # <<>>

\* Some entry of the category holds the text
Mentions(category, text) ==
  \E i \in 1..Len(context[category]) : Contains(context[category][i], text)

\* C9, as stated: every category of the fallback HistoricalContext references
\* the year and the location.
C9_EveryCategoryNamesYearAndLocation ==
  FallbackContextReturned =>
    \A f \in ContextListFields :
      Mentions(f, StrOfInt(req.year)) /\ Mentions(f, req.location)

\* C9, amended: the fallback HistoricalContext references the year in
\* architectural_styles, technology_level, cultural_characteristics,
\* notable_events and social_context (one entry each); common_materials and
\* transportation_methods are fixed lists, typical_clothing is empty, and no
\* category references the location.
C9_FallbackContextNamesYear ==
  FallbackContextReturned =>
    /\ \A f \in {"architectural_styles", "technology_level", "cultural_characteristics",
                 "notable_events", "social_context"} :
         Len(context[f]) = 1 /\ Mentions(f, StrOfInt(req.year))
    /\ context.common_materials = <<<<"s","t","o","n","e">> (* stone *), <<"w","o","o","d">> (* wood *), <<"b","r","i","c","k">> (* brick *)>>
    /\ context.transportation_methods = <<<<"w","a","l","k","i","n","g">> (* walking *), <<"h","o","r","s","e","-","d","r","a","w","n">> (* horse-drawn *)>>
    /\ context.typical_clothing = <<>>
    /\ \A f \in ContextListFields : ~Mentions(f, req.location)

\* C9 witness: the fallback for Paris in 1920
C9_Witness ==
  /\ FallbackContextReturned
  /\ req.location = <<"P","a","r","i","s">> (* Paris *) /\ req.year = 1920
  /\ context.technology_level = <<<<"1","9","2","0"," ","t","e","c","h","n","o","l","o","g","y">> (* 1920 technology *)>>

\* C10: core_description of every PromptComponents that
\* generate_prompt_components returns is not empty.
C10_CoreDescriptionNotEmpty ==
  (pc = "returned" /\ calls = <<"generate_prompt_components">>) =>
    components.core_description # <<>>

\* generate_prompt_components ran with a client
PromptsAsked ==
  /\ pc = "returned" /\ calls = <<"generate_prompt_components">>
  /\ ~agent.prompt_only /\ agent.client

\* The prompt response parses to a mapping that fails record construction: a
\* list with an element that is no str, or a core_description that is no str
PromptFailsConstruction ==
  /\ Parsed.ok /\ Parsed.v.t = "dict"
  /\ \/ \E f \in PromptListFields : BadList(DictGet(Parsed.v, FieldKey[f]))
     \/ /\ HasKey(Parsed.v, <<"c","o","r","e","_","d","e","s","c","r","i","p","t","i","o","n">> (* core_description *))
        /\ LET c == DictGet(Parsed.v, <<"c","o","r","e","_","d","e","s","c","r","i","p","t","i","o","n">> (* core_description *))
           IN ~(c.t = "str" \/ (lax /\ c.t \in {"num", "bool"}))

\* What the heuristic path returns for the inputs of the call
HeuristicResult == heuristic(analysis, context, req.location, req.year, wiki_terms)

\* C11: on the model path of generate_prompt_components a response that does
\* not parse, is no mapping or fails record construction, and a call that
\* raises, each return the record of the heuristic path for the same inputs,
\* field for field.
C11_FailedPromptIsHeuristic ==
  (PromptsAsked /\ (resp.raises \/ ~Parsed.ok \/ Parsed.v.t # "dict" \/ PromptFailsConstruction)) =>
    /\ result = "returned"
    /\ model_calls = 1
    /\ components = HeuristicResult

\* C11 witness: a response whose negative_prompts holds a number failed
\* construction and the heuristic record of a model-built analysis came back
C11_Witness ==
  /\ PromptsAsked /\ ~resp.raises /\ PromptFailsConstruction
  /\ analysis = StageModelAnalysis
  /\ components.core_description = <<"1","9","2","0"," ","P","a","r","i","s"," ","s","t","r","e","e","t">> (* 1920 Paris street *)
  /\ components.style_modifiers = StyleModifiers

\* A stage ran with a client (and an image) and its model call raised
CallRaised(stage) ==
  /\ pc = "returned" /\ calls = <<stage>>
  /\ ~agent.prompt_only /\ agent.client
  /\ req.image = "ok"
  /\ resp.raises

\* C12, as stated: a model call that raises yields, in each stage, an error
\* record with the error text in a field: clarification_questions,
\* social_context, core_description.
C12_ErrorTextInEveryStage ==
  /\ CallRaised("analyze_image") =>
       \E i \in 1..Len(analysis.clarification_questions) :
         Contains(analysis.clarification_questions[i], resp.err)
  /\ CallRaised("get_historical_context") =>
       \E i \in 1..Len(context.social_context) :
         Contains(context.social_context[i], resp.err)
  /\ CallRaised("generate_prompt_components") =>
       Contains(components.core_description, resp.err)

\* C12, amended: a model call that raises yields an error record with the
\* error text in clarification_questions (analyze_image) and in
\* social_context (get_historical_context); in generate_prompt_components it
\* yields the heuristic record, which holds the error text in no field.
C12_ErrorTextInTwoStages ==
  /\ CallRaised("analyze_image") =>
       /\ analysis.clarification_questions = <<<<"E","r","r","o","r",":"," ">> (* Error:  *) \o resp.err>>
       /\ analysis # FixedFallbackAnalysis
  /\ CallRaised("get_historical_context") =>
       /\ context.social_context = <<<<"E","r","r","o","r",":"," ">> (* Error:  *) \o resp.err>>
       /\ context # _fallback_context(req.location, req.year)
  /\ CallRaised("generate_prompt_components") =>
       /\ components = HeuristicResult
       /\ ~Contains(components.core_description, resp.err)
       /\ \A f \in PromptListFields : \A i \in 1..Len(components[f]) :
            ~Contains(components[f][i], resp.err)

\* C12 witness: the text model raised in generate_prompt_components and the
\* core description is the heuristic one
C12_Witness ==
  /\ CallRaised("generate_prompt_components")
  /\ req.location = <<"P","a","r","i","s">> (* Paris *) /\ req.year = 1920
  /\ analysis = FixedFallbackAnalysis
  /\ components.core_description = <<"1","9","2","0"," ","P","a","r","i","s"," ","u","r","b","a","n"," ","s","c","e","n","e">> (* 1920 Paris urban scene *)

\* generate_prompt_components was called for a location, with enrichment on
EnrichmentTried ==
  /\ pc = "returned" /\ calls = <<"generate_prompt_components">>
  /\ agent.enable_wiki /\ req.location # <<>>

\* Every search of the lookup raises
EverySearchRaises == \A i \in 1..Len(world.search) : world.search[i].raises

\* What generate_prompt_components returns for the same call without tokens
WithoutEnrichment ==
  generate_prompt_components(agent, lax, build_core(analysis, req.location, req.year),
    heuristic(analysis, context, req.location, req.year, <<>>), resp).val

\* C16: whatever the lookup does (a search raises, a summary fetch raises, a
\* page has no summary), generate_prompt_components returns a record and does
\* not raise; when every search raises, no token is gathered and the record is
\* the one returned without enrichment.
C16_EnrichmentNeverRaises ==
  (pc = "returned" /\ calls = <<"generate_prompt_components">>) =>
    /\ result = "returned"
    /\ ListOfStr(wiki_terms)
    /\ ((EnrichmentTried /\ EverySearchRaises) =>
          wiki_terms = <<>> /\ components = WithoutEnrichment)

\* C16 witness: every search for Paris raised and the heuristic record came
\* back with the styles of the context as its only tags
C16_Witness ==
  /\ EnrichmentTried /\ EverySearchRaises
  /\ CapabilityOff
  /\ result = "returned" /\ wiki_terms = <<>>
  /\ context = StageModelContext
  /\ components.historical_style_tags = <<<<"H","a","u","s","s","m","a","n","n">> (* Haussmann *), <<"A","r","t"," ","D","e","c","o">> (* Art Deco *), <<"s","t","o","n","e">> (* stone *), <<"i","r","o","n">> (* iron *)>>

\* A query of the lookup went through: its search returned a page whose
\* summary was fetched with its extract
SomeQuerySucceeded ==
  \E i \in 1..2 :
    /\ ~world.search[i].raises
    /\ \E j \in 1..Len(world.search[i].hits) :
         world.summary[world.search[i].hits[j].title].kind = "ok"

\* C17: a query of the lookup that fails (in its search or in a summary
\* fetch) contributes nothing, and the queries that succeeded still
\* contribute their tokens.
C17_FailuresIsolatedPerQuery ==
  (EnrichmentTried /\ SomeQuerySucceeded) => wiki_terms # <<>>

\* C15: build raises for no well-formed PromptComponents (lists that hold
\* empty strings included), the negative_prompt of its payload is never the
\* empty string, and it is the fixed literal when negative_prompts is empty.
C15_NegativePromptNeverEmpty ==
  (entry = "sync_analyze" /\ Len(calls) = 4) =>
    /\ result = "payload"
    /\ payload.negative_prompt # <<>>
    /\ (components.negative_prompts = <<>> =>
          payload.negative_prompt =
            <<"m","o","d","e","r","n"," ","e","l","e","m","e","n","t","s",","," ","c","o","n","t","e","m","p","o","r","a","r","y"," ","c","a","r","s",","," ","m","o","d","e","r","n"," ","s","i","g","n","a","g","e",","," ","m","o","d","e","r","n"," ","c","l","o","t","h","i","n","g">> (* modern elements, contemporary cars, modern signage, modern clothing *))

\* The lowercase-trimmed key of an entry
DedupeKey(s) == Strip(Lower(s))

\* The positions of seq that hold the first occurrence of a non-empty key
FirstOccurrences(seq) ==
  {i \in 1..Len(seq) :
     /\ DedupeKey(seq[i]) # <<>>
     /\ \A j \in 1..(i - 1) : DedupeKey(seq[j]) # DedupeKey(seq[i])}

\* out is seq restricted to the positions of idx, in the order of seq
KeepsExactly(seq, idx, out) ==
  /\ Len(out) = Cardinality(idx)
  /\ \A n \in 1..Len(out) :
       \E i \in idx : Cardinality({j \in idx : j <= i}) = n /\ out[n] = seq[i]

\* C14: _dedupe keeps exactly the first occurrence of each distinct
\* lowercase-trimmed key, in input order, and drops the entries whose trimmed
\* text is empty; no two elements of its result are equal ignoring case and
\* surrounding whitespace; applying it twice equals applying it once.
C14_DedupeKeepsFirstOccurrences ==
  (pc = "call_dedupe" /\ ret # <<>>) =>
    /\ KeepsExactly(arg, FirstOccurrences(arg), ret[1])
    /\ \A m, n \in 1..Len(ret[1]) :
         DedupeKey(ret[1][m]) = DedupeKey(ret[1][n]) => m = n
    /\ \A n \in 1..Len(ret[1]) : DedupeKey(ret[1][n]) # <<>>
    /\ (Len(ret) = 2 => ret[2] = ret[1])

\* C14 witness: ["Stone","stone","Brick"] gave ["Stone","Brick"], twice
C14_Witness ==
  /\ pc = "call_dedupe"
  /\ arg = <<<<"S","t","o","n","e">> (* Stone *), <<"s","t","o","n","e">> (* stone *), <<"B","r","i","c","k">> (* Brick *)>>
  /\ ret = << <<<<"S","t","o","n","e">> (* Stone *), <<"B","r","i","c","k">> (* Brick *)>>, <<<<"S","t","o","n","e">> (* Stone *), <<"B","r","i","c","k">> (* Brick *)>> >>

\* The objects of values that the response holds between leading and trailing
\* commentary (words without a brace)
Commented(values) ==
  {v \in values :
     /\ v.t = "dict"
     /\ \E a \in 0..MaxLead, b \in 0..MaxTrail :
          resp.text = Words(a) \o Dumps(v) \o Words(b)}

\* get_historical_context ran with a client and the model answered
ContextAnswered ==
  /\ pc = "returned" /\ calls = <<"get_historical_context">>
  /\ ~agent.prompt_only /\ agent.client
  /\ ~resp.raises

CoercedList(val) ==
  IF val.t = "null" THEN <<>>
  ELSE IF val.t = "str" THEN SplitComma(val.s)
  ELSE IF val.t = "list" THEN [i \in 1..Len(val.a) |-> val.a[i].s]
  ELSE <<>>

\* rec holds, in each of its list fields, the coerced value of the mapping
\* (lists of strings: pydantic converts the other elements it accepts)
FieldsCoerced(rec, mapping, fields) ==
  \A f \in fields :
    LET val == DictGet(mapping, FieldKey[f])
    IN (val.t = "list" => \A i \in 1..Len(val.a) : val.a[i].t = "str")
         => rec[f] = CoercedList(val)

\* C19: in all three stages, for every list-typed field of the target
\* record, an absent or null value becomes the empty list, a string is split
\* on commas with each part trimmed and the empty parts dropped (and the
\* stage does not fall back), a list is passed through unchanged, and a
\* value of any other type becomes the empty list.
C19_ListFieldsCoerced ==
  /\ (VisionAnswered /\ ~VisionMalformed) =>
       /\ FieldsCoerced(analysis, VisionMapping, AnalysisListFields)
       /\ (Parsed.v = FullAnalysisValue =>
             /\ analysis.technology_visible = <<<<"c","a","r","s">> (* cars *), <<"p","h","o","n","e","s">> (* phones *)>>
             /\ analysis.architectural_elements = <<<<"S","t","o","n","e">> (* Stone *), <<"s","t","o","n","e">> (* stone *), <<"B","r","i","c","k">> (* Brick *)>>
             /\ analysis.clothing_fashion = <<>>)
  /\ (ContextAnswered /\ ~ContextMalformed) =>
       /\ FieldsCoerced(context, ContextMapping, ContextListFields)
       /\ (Parsed.v = FullContextValue =>
             /\ context.common_materials = <<<<"s","t","o","n","e">> (* stone *), <<"i","r","o","n">> (* iron *)>>
             /\ context.technology_level = <<>>
             /\ context.social_context = <<>>)
  /\ (PromptsAsked /\ ~resp.raises /\ Parsed.ok /\ Parsed.v.t = "dict"
        /\ ~PromptFailsConstruction) =>
       /\ FieldsCoerced(components, Parsed.v, PromptListFields)
       /\ (DictGet(Parsed.v, <<"n","e","g","a","t","i","v","e","_","p","r","o","m","p","t","s">> (* negative_prompts *)) = JStr(<<"c","a","r","s",","," ","p","h","o","n","e","s">> (* cars, phones *)) =>
             /\ components.negative_prompts = <<<<"c","a","r","s">> (* cars *), <<"p","h","o","n","e","s">> (* phones *)>>
             /\ components.style_modifiers = <<>>
             /\ components.atmospheric_elements = <<>>
             /\ components.core_description = <<" ","P","a","r","i","s"," ","s","t","r","e","e","t",","," ","1","9","2","0"," ">> (*  Paris street, 1920  *))

\* C19 witness: the prompt model answered negative_prompts "cars, phones" and
\* a number for style_modifiers, and the record built from the answer came back
C19_Witness ==
  /\ PromptsAsked /\ ~resp.raises
  /\ Parsed.ok /\ Parsed.v.t = "dict"
  /\ DictGet(Parsed.v, <<"n","e","g","a","t","i","v","e","_","p","r","o","m","p","t","s">> (* negative_prompts *)) = JStr(<<"c","a","r","s",","," ","p","h","o","n","e","s">> (* cars, phones *))
  /\ DictGet(Parsed.v, <<"s","t","y","l","e","_","m","o","d","i","f","i","e","r","s">> (* style_modifiers *)).t = "num"
  /\ components.negative_prompts = <<<<"c","a","r","s">> (* cars *), <<"p","h","o","n","e","s">> (* phones *)>>
  /\ components.style_modifiers = <<>>
  /\ components # HeuristicResult

\* What request t holds when it runs alone, stage after stage
SoloAnalysis(t) ==
  analyze_image(agent, lax, t.req.image, t.req.location, t.req.year, t.script.rv).val

SoloContext(t, a) ==
  get_historical_context(agent, lax, t.req.location, t.req.year, a, t.script.rc).val

SoloComponents(t, a, c) ==
  LET terms == WikiTerms(agent, t.req.location, t.req.year, c.architectural_styles,
                         t.script.w).val
  IN generate_prompt_components(agent, lax,
       build_core(a, t.req.location, t.req.year),
       heuristic(a, c, t.req.location, t.req.year, terms), t.script.rp).val

\* The stages of a request that have returned at each position of its handler
TaskStagesDone ==
  [analysis |-> 0, context |-> 1, prompts |-> 2, respond |-> 3, done |-> 3]

\* C20: requests served by the one shared agent with their stages interleaved
\* in any order are independent: at every point each request holds the
\* records it produces when run alone, and its response is built from them.
C20_RequestsIndependent ==
  pc = "serving" =>
    \A i \in TaskIds :
      \E t \in {tasks[i]} :
      \E a \in {SoloAnalysis(t)} :
      \E c \in {SoloContext(t, a)} :
        /\ t.result # "http_500"
        /\ (TaskStagesDone[t.pc] >= 1 => t.analysis = a)
        /\ (TaskStagesDone[t.pc] >= 2 => t.context = c)
        /\ (TaskStagesDone[t.pc] >= 3 => t.components = SoloComponents(t, a, c))
        /\ (t.pc = "done" =>
              /\ t.result = "response"
              /\ t.next_steps.research_needed = a.research_suggestions
              /\ t.next_steps.style_modifiers = t.components.style_modifiers)

\* C20 witness: request 2 ran to its response while request 1 was suspended
\* after its first stage; the two hold different records
C20_Witness ==
  /\ pc = "serving"
  /\ tasks[1].pc = "context" /\ tasks[2].pc = "done"
  /\ tasks[1].req # tasks[2].req
  /\ tasks[1].analysis # tasks[2].analysis
  /\ tasks[2].result = "response"
  /\ tasks[2].components # PromptComponents
  /\ model_calls = 4

\* The stages a request of the entry point runs: /analyze has no build
EntryPipeline ==
  IF entry = "sync_analyze" THEN PipelineStages ELSE Take(PipelineStages, 3)

\* C21: within one request the stages run strictly in order:
\* get_historical_context only after analyze_image returned,
\* generate_prompt_components only after both and with both records, build
\* last; a stage that degraded to its fallback or error record does not stop
\* the stages after it.
C21_StagesInOrder ==
  entry \in {"sync_analyze", "analyze"} =>
    /\ calls = Take(PipelineStages, Len(calls))
    /\ (pc = "context" => Len(calls) = 1)
    /\ (pc = "prompts" => Len(calls) = 2)
    /\ (pc \in {"build", "respond"} => Len(calls) = 3)
    /\ (calls # <<>> => result \in {"none", "payload", "response"})
    /\ ((pc = "done" /\ calls # <<>>) => calls = EntryPipeline)
    /\ ((Len(calls) >= 3 /\ CapabilityOff) =>
          components = heuristic(analysis, context, ArgLocation, req.year, wiki_terms))

\* C21 witness: the vision call and the context call both raised, and the two
\* error records went through the prompt stage and build
C21_Witness ==
  /\ entry = "sync_analyze" /\ pc = "done"
  /\ analysis = _error_analysis(<<"C","o","n","n","e","c","t","i","o","n"," ","e","r","r","o","r",".">> (* Connection error. *))
  /\ context = _error_context(<<"C","o","n","n","e","c","t","i","o","n"," ","e","r","r","o","r",".">> (* Connection error. *))
  /\ calls = PipelineStages
  /\ result = "payload"

\* generate_prompt_components returned on its heuristic path
HeuristicReturned ==
  /\ Len(calls) >= 1 /\ calls[1] = "generate_prompt_components"
  /\ CapabilityOff

\* "{year} {location} {scene_type}", with the word scene for an unknown scene_type
CoreTemplate ==
  StrOfInt(req.year) \o <<" ">> \o req.location \o <<" ">>
    \o (IF analysis.scene_type = <<"u","n","k","n","o","w","n">> (* unknown *) THEN <<"s","c","e","n","e">> (* scene *) ELSE analysis.scene_type)

\* C22 as stated: on the heuristic path core_description equals
\* "{year} {location} {scene_type}", with the word "scene" in place of
\* scene_type exactly when scene_type is "unknown".
C22_CoreIsTemplate ==
  HeuristicReturned => components.core_description = CoreTemplate

\* C22 amended: on the heuristic path core_description equals
\* "{year} {location} {scene_type}" with its surrounding whitespace trimmed,
\* with the word "scene" in place of scene_type exactly when scene_type is
\* "unknown"; for the scene_type of the fallback analysis, location "Paris"
\* and year 1920 it equals "1920 Paris urban scene".
C22_CoreIsTrimmedTemplate ==
  HeuristicReturned =>
    /\ components.core_description = Strip(CoreTemplate)
    /\ (analysis.scene_type = <<"u","r","b","a","n"," ","s","c","e","n","e">> (* urban scene *) =>
          components.core_description = <<"1","9","2","0"," ","P","a","r","i","s"," ","u","r","b","a","n"," ","s","c","e","n","e">> (* 1920 Paris urban scene *))
    /\ (analysis.scene_type = <<"u","n","k","n","o","w","n">> (* unknown *) =>
          components.core_description = <<"1","9","2","0"," ","P","a","r","i","s"," ","s","c","e","n","e">> (* 1920 Paris scene *))
    /\ (analysis.scene_type = <<"s","t","r","e","e","t">> (* street *) =>
          components.core_description = <<"1","9","2","0"," ","P","a","r","i","s"," ","s","t","r","e","e","t">> (* 1920 Paris street *))

\* C22 witness: an unknown scene_type gave "1920 Paris scene"
C22_Witness ==
  /\ HeuristicReturned
  /\ analysis.scene_type = <<"u","n","k","n","o","w","n">> (* unknown *)
  /\ components.core_description = <<"1","9","2","0"," ","P","a","r","i","s"," ","s","c","e","n","e">> (* 1920 Paris scene *)

\* The entries of a list
Entries(xs) == {xs[i] : i \in 1..Len(xs)}

\* The first n entries of a list
Firsts(xs, n) == {xs[i] : i \in (1..n) \cap DOMAIN xs}

\* The caps of the heuristic record, but for the perspective entry
HeuristicCaps ==
  /\ Len(components.historical_style_tags) <= 10
  /\ Entries(components.historical_style_tags) \subseteq
       Firsts(context.architectural_styles, 8)
         \cup Firsts(context.common_materials, 5)
         \cup Firsts(wiki_terms, 6)
  /\ Len(components.architectural_details) <= 12
  /\ Entries(components.architectural_details) \subseteq
       Firsts(analysis.architectural_elements, 10)
         \cup Firsts(context.common_materials, 5)
  /\ Len(components.atmospheric_elements) <= 6
  /\ Len(components.negative_prompts) <= 15
  /\ Len(components.style_modifiers) = 6
  /\ components.style_modifiers =
       <<<<"h","i","s","t","o","r","i","c","a","l"," ","r","e","a","l","i","s","m">> (* historical realism *), <<"r","i","c","h"," ","t","e","x","t","u","r","e">> (* rich texture *), <<"f","i","n","e"," ","d","e","t","a","i","l">> (* fine detail *), <<"n","a","t","u","r","a","l"," ","l","i","g","h","t","i","n","g">> (* natural lighting *),
         <<"f","i","l","m"," ","g","r","a","i","n">> (* film grain *), <<"h","i","g","h"," ","d","y","n","a","m","i","c"," ","r","a","n","g","e">> (* high dynamic range *)>>
  /\ Len(components.composition_guidance) <= 5

\* C23 as stated: the heuristic record respects every cap, and
\* composition_guidance always contains an entry equal, ignoring case, to
\* "maintain original perspective".
C23_CapsAndPerspective ==
  HeuristicReturned =>
    /\ HeuristicCaps
    /\ \E e \in Entries(components.composition_guidance) :
         Lower(e) = <<"m","a","i","n","t","a","i","n"," ","o","r","i","g","i","n","a","l"," ","p","e","r","s","p","e","c","t","i","v","e">> (* maintain original perspective *)

\* C23 amended: the heuristic record respects every cap (at most 10 tags from
\* the first 8 styles, 5 materials and 6 tokens; at most 12 details from the
\* first 10 elements and 5 materials; at most 6 atmospheric elements; at most
\* 15 negative prompts; the fixed 6 style modifiers; at most 5 composition
\* entries), and composition_guidance always contains an entry equal to
\* "maintain original perspective" ignoring case and surrounding whitespace.
C23_CapsAndTrimmedPerspective ==
  HeuristicReturned =>
    /\ HeuristicCaps
    /\ \E e \in Entries(components.composition_guidance) :
         Strip(Lower(e)) = <<"m","a","i","n","t","a","i","n"," ","o","r","i","g","i","n","a","l"," ","p","e","r","s","p","e","c","t","i","v","e">> (* maintain original perspective *)

\* C23 witness: 9 styles, 6 materials and more than 6 tokens gave 10 tags, and
\* 11 elements gave 12 details
C23_Witness ==
  /\ HeuristicReturned
  /\ Len(context.architectural_styles) = 9 /\ Len(context.common_materials) = 6
  /\ Len(wiki_terms) > 6
  /\ Len(analysis.architectural_elements) = 11
  /\ Len(components.historical_style_tags) = 10
  /\ Len(components.architectural_details) = 12
  /\ Len(components.composition_guidance) = 5

\* C24: heuristic atmospheric_elements holds only lowercased mood descriptors
\* of at most 60 characters and never an entry equal to "unknown", whatever
\* lighting_conditions, weather_atmosphere, time_of_day and season are
\* ("Unknown" and " unknown" included).
C24_NoUnknownMood ==
  HeuristicReturned =>
    \A e \in Entries(components.atmospheric_elements) :
      /\ Len(e) <= 60
      /\ e = Lower(e)
      /\ e \in {Prefix(Lower(Strip(m)), 60) :
                  m \in {analysis.lighting_conditions, analysis.weather_atmosphere,
                         analysis.time_of_day, analysis.season}}
      /\ e # <<"u","n","k","n","o","w","n">> (* unknown *)

\* The 8 base terms followed by "modern {t}" for the first 5 technology items
NegativeCandidates ==
  <<<<"m","o","d","e","r","n"," ","c","a","r","s">> (* modern cars *), <<"n","e","o","n"," ","l","i","g","h","t","s">> (* neon lights *), <<"m","o","d","e","r","n"," ","s","i","g","n","a","g","e">> (* modern signage *), <<"s","k","y","s","c","r","a","p","e","r","s">> (* skyscrapers *),
    <<"c","o","n","t","e","m","p","o","r","a","r","y"," ","c","l","o","t","h","i","n","g">> (* contemporary clothing *), <<"s","m","a","r","t","p","h","o","n","e","s">> (* smartphones *), <<"e","l","e","c","t","r","i","c"," ","p","o","l","e","s">> (* electric poles *), <<"t","r","a","f","f","i","c"," ","l","i","g","h","t","s">> (* traffic lights *)>>
  \o [i \in (1..5) \cap DOMAIN analysis.technology_visible |->
        <<"m","o","d","e","r","n"," ">> (* modern  *) \o analysis.technology_visible[i]]

BuildReturned == Len(calls) >= 1 /\ calls[Len(calls)] = "build"

\* The fragment of a list in the positive prompt: ", " and its first n
\* entries joined with ", ", nothing for an empty list
Fragment(xs, n) ==
  IF xs = <<>> THEN <<>>
  ELSE <<","," ">> \o Join(<<","," ">>, [i \in (1..n) \cap DOMAIN xs |-> xs[i]])

\* text holds ", " twice in a row, or ends with it
DoubledSeparator(text) ==
  \/ \E i \in 1..(Len(text) - 3) :
       <<text[i], text[i + 1], text[i + 2], text[i + 3]>> = <<","," ",","," ">> (* , ,  *)
  \/ (Len(text) >= 2 /\ <<text[Len(text) - 1], text[Len(text)]>> = <<","," ">>)

\* C26: the positive prompt is core_description followed by the ", "-joined
\* fragments, in the order historical_style_tags (all), architectural_details
\* (first 8), atmospheric_elements (first 5), style_modifiers (first 8),
\* composition_guidance (first 4), a fragment only for a non-empty list; no
\* empty fragment and no doubled separator appears in it.
C26_PositivePrompt ==
  BuildReturned =>
    /\ ~DoubledSeparator(payload.core_prompt)
    /\ ((\A f \in PromptListFields : \A e \in Entries(components[f]) : e # <<>>) =>
          payload.core_prompt =
            Strip(components.core_description)
              \o Fragment(components.historical_style_tags,
                          Len(components.historical_style_tags))
              \o Fragment(components.architectural_details, 8)
              \o Fragment(components.atmospheric_elements, 5)
              \o Fragment(components.style_modifiers, 8)
              \o Fragment(components.composition_guidance, 4))

\* The stage that returns in this step
Returning(stage) == calls' = Append(calls, stage)

\* C27: no stage changes a record it did not create: get_historical_context
\* leaves the analysis as it was, generate_prompt_components leaves the
\* analysis and the context, build leaves the components, and the
\* pass-through lists of the payload are the lists of the components in
\* full, not the prefixes used in the positive prompt.
C27_RecordsNotMutated ==
  [][/\ (Returning("get_historical_context") => analysis' = analysis)
     /\ (Returning("generate_prompt_components") =>
           analysis' = analysis /\ context' = context)
     /\ (Returning("build") =>
           /\ analysis' = analysis /\ context' = context
           /\ components' = components
           /\ payload'.style_modifiers = components.style_modifiers
           /\ payload'.architectural_details = components.architectural_details
           /\ payload'.atmospheric_elements = components.atmospheric_elements
           /\ payload'.composition_guidance = components.composition_guidance
           /\ payload'.historical_tags = components.historical_style_tags)]_vars

\* C27 witness: build returned 9 details, 6 atmospheric elements, 9 style
\* modifiers and 5 composition entries, each longer than its prefix
C27_Witness ==
  /\ BuildReturned
  /\ Len(components.architectural_details) = 9
  /\ Len(payload.architectural_details) = 9
  /\ Len(payload.atmospheric_elements) = 6
  /\ Len(payload.style_modifiers) = 9
  /\ Len(payload.composition_guidance) = 5

\* The parsed response is a mapping that holds the named key
WrapsUnder(key) == Parsed.ok /\ Parsed.v.t = "dict" /\ HasKey(Parsed.v, key)

\* C28: in analyze_image and in get_historical_context a parsed response that
\* wraps the payload under the record's named key is replaced by the wrapped
\* value before coercion, and whenever the value under that key is not a
\* mapping the stage returns its fallback record, not a record built from the
\* outer object.
C28_OneLevelUnwrap ==
  /\ (VisionAnswered /\ WrapsUnder(<<"A","n","a","l","y","s","i","s","R","e","s","u","l","t">> (* AnalysisResult *))) =>
       \E inner \in {DictGet(Parsed.v, <<"A","n","a","l","y","s","i","s","R","e","s","u","l","t">> (* AnalysisResult *))} :
         analysis =
           (IF inner.t = "dict"
            THEN analyze_image(agent, lax, req.image, req.location, req.year,
                               AsResponse(inner)).val
            ELSE _fallback_analysis(req.location, req.year))
  /\ (ContextAnswered /\ WrapsUnder(<<"H","i","s","t","o","r","i","c","a","l","C","o","n","t","e","x","t">> (* HistoricalContext *))) =>
       \E inner \in {DictGet(Parsed.v, <<"H","i","s","t","o","r","i","c","a","l","C","o","n","t","e","x","t">> (* HistoricalContext *))} :
         context =
           (IF inner.t = "dict"
            THEN get_historical_context(agent, lax, req.location, req.year, analysis,
                                        AsResponse(inner)).val
            ELSE _fallback_context(req.location, req.year))

\* What the lookup of the request returned ({"results": [...]}); nothing when
\* the enrichment is off or the lookup raised
LookupResults ==
  IF agent.enable_wiki /\ req.location # <<>>
  THEN contextual_wiki_lookup(req.location, req.year, context.architectural_styles,
                              world).val
  ELSE <<>>

\* t is lowercase, purely alphabetic and 3 to 15 characters long
TokenShape(t) ==
  /\ Len(t) >= 3 /\ Len(t) <= 15
  /\ \A i \in 1..Len(t) : t[i] \in Entries(LowerChars)

\* The qualifying tokens of the first 400 characters of a summary
Qualifying(summary) ==
  {t \in {Lower(StripSet(tok, {".", ",", ";", ":", "\"", "(", ")"})) :
            tok \in Entries(SplitWs(Prefix(summary, 400)))} : TokenShape(t)}

\* The qualifying tokens of the first n results of the lookup
QualifyingOfFirst(n) ==
  UNION {Qualifying(LookupResults[i].summary) : i \in (1..n) \cap DOMAIN LookupResults}

\* generate_prompt_components returned, enrichment step included
EnrichmentDone == Len(calls) >= 1 /\ calls[1] = "generate_prompt_components"

\* C29: after the enrichment step, whatever the lookups return, the token
\* list has at most 15 entries, none twice, each lowercase, purely alphabetic
\* and 3 to 15 characters long; extraction stops as soon as the 15th token is
\* added (below 15, every qualifying token of the results read is there).
C29_TokenListBounded ==
  EnrichmentDone =>
    /\ Len(wiki_terms) <= 15
    /\ \A i, j \in 1..Len(wiki_terms) : wiki_terms[i] = wiki_terms[j] => i = j
    /\ \A t \in Entries(wiki_terms) : TokenShape(t)
    /\ Entries(wiki_terms) \subseteq QualifyingOfFirst(3)
    /\ (Len(wiki_terms) < 15 => Entries(wiki_terms) = QualifyingOfFirst(3))

\* C29 witness: the 15th token came from the second summary, whose later
\* tokens and the third summary were not read
C29_Witness ==
  /\ EnrichmentDone
  /\ Len(wiki_terms) = 15
  /\ wiki_terms[1] = <<"p","a","r","i","s">> (* paris *)
  /\ wiki_terms[15] = <<"p","a","l","a","c","e">> (* palace *)
  /\ Cardinality(QualifyingOfFirst(3)) > 15

\* The queries of the claim, in order, compared ignoring case
ClaimedQueries ==
  <<Lower(req.location \o <<" ">> \o StrOfInt(req.year)),
    Lower(<<"h","i","s","t","o","r","y"," ","o","f"," ">> (* history of  *) \o req.location)>>
  \o [i \in (1..3) \cap DOMAIN context.architectural_styles |->
        Lower(req.location \o <<" ">> \o context.architectural_styles[i])]

\* C30: the lookup issues at most 5 queries in the fixed order
\* "{location} {year}", "history of {location}", then the location with each
\* of the first 3 style hints, and collects at most 5 results with pairwise
\* distinct titles; while the 15-token cap is not reached, every collected
\* result (up to 5) contributes the qualifying tokens of the first 400
\* characters of its summary.
C30_EveryResultContributes ==
  (EnrichmentDone /\ agent.enable_wiki) =>
    /\ Len(ClaimedQueries) <= 5
    /\ Len(LookupResults) <= 5
    /\ \A i \in DOMAIN LookupResults :
         Lower(LookupResults[i].query) \in Entries(ClaimedQueries)
    /\ \A i, j \in DOMAIN LookupResults :
         LookupResults[i].title = LookupResults[j].title => i = j
    /\ (Len(wiki_terms) < 15 => QualifyingOfFirst(5) \subseteq Entries(wiki_terms))
====
